---- MODULE Spec2Model ----
(***************************************************************************)
(* The conversation core of the voice agent server: the in-memory session  *)
(* store, the policy override table, the agent router and the lead,        *)
(* booking and menu agents, driven by the webhook handlers.                *)
(*                                                                         *)
(* JavaScript objects are modelled with their identity.  The session store *)
(* never mutates a session in place: every update() puts a NEW object in   *)
(* the map (a spread copy).  The router, on the other hand, assigns        *)
(* currentIntent / lastIntent in place on the object it was handed.  The   *)
(* heap below keeps the two apart.                                         *)
(*                                                                         *)
(* A turn runs without interruption between two real suspension points     *)
(* (the awaited HTTP calls to HubSpot / Airtable); awaits on async         *)
(* functions that do no I/O resolve in the same macrotask.                 *)
(***************************************************************************)
EXTENDS Integers, Sequences, FiniteSets, TLC

----------------------------------------------------------------------------
(* Bounds of the model *)

MaxTurns == 4          \* asr.final events delivered in a run
MaxInflight == 2       \* turns that may be suspended at an external call at once
MaxCalls == 1          \* call.started events delivered in a run
MaxCustomRules == 1    \* addPolicyOverride calls in a run
MaxFaultTurns == 2      \* turns in a run of the specification with failing agents
MaxStoreTurns == 3        \* turns in a run of the session store specification
MaxCompletionTurns == 3   \* turns in a run of the booking completion specification
MaxBookingTurns == 3   \* turns in a run of the booking call specification
MaxApiTurns == 2       \* turns in a run of the router API specification
MaxClock == 4          \* largest value of the clock, in units of 12 hours
MaxSweepTurns == 2     \* turns in a run of the sweep specification
MaxRestarts == 2       \* call.started events in a run of the restart specification
MaxRestartTurns == 2   \* turns in a run of the restart specification
MaxClockTurns == 2     \* turns in a run of the clock specification
MaxMenuTurns == 3      \* turns in a run of the menu specification
MaxStallTurns == 4     \* turns in a run of the two-call specification
MaxWebhookTurns == 3   \* turns in a run of the webhook endpoint specification
MaxUnconfiguredTurns == 3  \* turns in a run of the server without CRM credentials
RandomSteps == 4           \* Math.random() yields 0, 1/RandomSteps, .. below 1
InitSlots == 1         \* largest initial remainingSlots of the modelled time slot

TheCalls == <<"call-1", "call-2">>
CallIds == { TheCalls[i] : i \in 1..Len(TheCalls) }
OneCall == { TheCalls[1] }   \* the call of a run with a single caller
TurnSlots == 1..MaxInflight
ObjIds == 1..(MaxInflight + Len(TheCalls) + 1)
Intents == {"lead", "booking", "menu"}

(* `undefined` for string-valued fields; like undefined, "" is falsy in JS. *)
None == ""
NoObj == [free |-> TRUE]

----------------------------------------------------------------------------
(* Caller utterances.  The code only looks at an utterance through         *)
(* String.includes / RegExp tests and through the capture groups of its    *)
(* extraction patterns; `has' lists, for one concrete utterance, which of  *)
(* the literals and regex alternatives used by the code occur in it, and   *)
(* the remaining fields are what the extraction patterns capture from it.  *)
(* A time is captured as extractTime computes it: "7 PM" matches the       *)
(* pattern with two groups, whose second group is taken for the minutes    *)
(* and whose period is undefined, so the time is "07:NaN"; "tonight"       *)
(* without a time is 19:00.                                                *)

Utterances ==
  { "I need information about your services",
    "My name is Test User and email is test@example.com",
    "I would like to make a reservation for 4 people tonight at 7 PM",
    "Tell me about the food on your menu",
    "Could you repeat that please",
    "Sorry what was that, can you repeat the email spelling",
    "Yes that is correct",
    "This is urgent I want to speak to a manager" }

(* Utterances of callers who book a table, or leave their contact. *)
BookingUtterances ==
  { "A table for 4 people tonight please",
    "My name is Test User and email is test@example.com",
    "My name is John Smith",
    "Yes that is correct",
    "We need a window table for the reservation",
    "We need a quiet table for the birthday dinner",
    "Is there a price list for tonight" }

(* Utterances of a caller who gives a whole booking, then confirms it. *)
CompletionUtterances ==
  { "A table for 4 people tonight under John Smith",
    "Yes that is correct" }

(* Utterances of a caller who leaves their contact, then confirms it. *)
LeadUtterances ==
  { "My name is Test User and email is test@example.com",
    "Yes that is correct" }

(* Utterances of a caller who asks about the specials and to hear them    *)
(* again.                                                                  *)
MenuUtterances ==
  { "Tell me about the specials on your menu",
    "Could you repeat that please",
    "Read me the dishes again",
    "This is urgent could you repeat that" }

(* Utterances of a caller who leaves a contact and asks for a repeat. *)
ClockUtterances == LeadUtterances \cup {"Could you repeat that please"}

NoCapture ==
  [ leadName |-> None, bookingName |-> None, email |-> None, phone |-> None,
    partySize |-> 0, dateTime |-> None, useCase |-> None ]

FeatureTable ==
  [ u \in Utterances \cup BookingUtterances \cup CompletionUtterances
          \cup MenuUtterances |->
  CASE u = "I need information about your services" ->
         [ has |-> {"information", "need", "need information about"},
           cap |-> [NoCapture EXCEPT !.useCase = "your services"] ]
    [] u = "My name is Test User and email is test@example.com" ->
         [ has |-> {"email", "name"},
           cap |-> [NoCapture EXCEPT !.leadName = "Test User and email is test",
                                     !.bookingName = "Test User and email is test",
                                     !.email = "test@example.com"] ]
    [] u = "I would like to make a reservation for 4 people tonight at 7 PM" ->
         [ has |-> {"reservation", "tonight"},
           cap |-> [NoCapture EXCEPT !.partySize = 4, !.dateTime = "today 07:NaN"] ]
    [] u = "Tell me about the food on your menu" ->
         [ has |-> {"food", "menu", "tell me", "tell me about"},
           cap |-> NoCapture ]
    [] u = "Could you repeat that please" ->
         [ has |-> {"eat", "repeat"}, cap |-> NoCapture ]
    [] u = "Sorry what was that, can you repeat the email spelling" ->
         [ has |-> {"eat", "email", "repeat", "spell", "spelling", "what"},
           cap |-> NoCapture ]
    [] u = "Yes that is correct" ->
         [ has |-> {"correct", "yes"}, cap |-> NoCapture ]
    [] u = "This is urgent I want to speak to a manager" ->
         [ has |-> {"manager", "urgent"},
           cap |-> [NoCapture EXCEPT !.leadName = "urgent I want to speak to a manager",
                                     !.bookingName = "urgent I want to speak to a manager"] ]
    [] u = "A table for 4 people tonight please" ->
         [ has |-> {"table", "tonight"},
           cap |-> [NoCapture EXCEPT !.partySize = 4, !.dateTime = "today 19:00"] ]
    [] u = "A table for 4 people tonight under John Smith" ->
         [ has |-> {"table", "tonight"},
           cap |-> [NoCapture EXCEPT !.bookingName = "John Smith", !.partySize = 4,
                                     !.dateTime = "today 19:00"] ]
    [] u = "My name is John Smith" ->
         [ has |-> {"name"},
           cap |-> [NoCapture EXCEPT !.leadName = "John Smith",
                                     !.bookingName = "John Smith"] ]
    [] u = "We need a window table for the reservation" ->
         [ has |-> {"need", "reservation", "table", "window"},
           cap |-> [NoCapture EXCEPT !.bookingName = "the reservation"] ]
    [] u = "We need a quiet table for the birthday dinner" ->
         [ has |-> {"birthday", "dinner", "need", "quiet", "table"},
           cap |-> [NoCapture EXCEPT !.bookingName = "the birthday dinner"] ]
    [] u = "Is there a price list for tonight" ->
         [ has |-> {"price", "tonight"},
           cap |-> [NoCapture EXCEPT !.dateTime = "today 19:00"] ]
    [] u = "Tell me about the specials on your menu" ->
         [ has |-> {"menu", "special", "tell me", "tell me about"},
           cap |-> NoCapture ]
    [] u = "Read me the dishes again" ->
         [ has |-> {"again", "dish"}, cap |-> NoCapture ]
    [] u = "This is urgent could you repeat that" ->
         [ has |-> {"eat", "repeat", "urgent"},
           cap |-> [NoCapture EXCEPT !.leadName = "urgent could you repeat that",
                                     !.bookingName = "urgent could you repeat that"] ]
    [] OTHER -> [ has |-> {}, cap |-> NoCapture ] ]

Features(u) == FeatureTable[u]

(* userInput.toLowerCase().includes(kw) *)
Includes(u, kw) == kw \in Features(u).has

(* keywords.some(kw => input.includes(kw)) *)
IncludesAny(u, kws) == \E kw \in kws : Includes(u, kw)

(* keywords.filter(kw => input.includes(kw)).length *)
CountIncluded(u, kws) == Cardinality({kw \in kws : Includes(u, kw)})

----------------------------------------------------------------------------
VARIABLES
  sessions,          \* SessionStore.sessions: callId -> object id (0: no entry)
  heap,              \* object id -> session object (NoObj: not allocated)
  turns,             \* the event handlers in flight, one per slot
  nturns,            \* asr.final events delivered so far
  ncalls,            \* call.started events delivered so far
  nextKey,           \* source of fresh uuidv4() values
  POLICY_OVERRIDES,  \* the override table (built-in rules, then added ones)
  remainingSlots,    \* AvailabilityState: remainingSlots of today's 19:00 slot
  reservations,      \* AvailabilityState: the reservations tracked for today
  httpCall,          \* httpWithRetry: the call in progress (pc "idle": none)
  chosen,            \* history: per call, the intent chosen for the call
  now                \* Date.now(), in units of 12 hours

vars == << now, sessions, heap, turns, nturns, ncalls, nextKey, POLICY_OVERRIDES,
           remainingSlots, reservations, chosen, httpCall >>

----------------------------------------------------------------------------
(* httpWithRetry: no call in progress. `requests' counts the calls of       *)
(* client.request, `settled' lists what they have settled with; lastError  *)
(* and returned are << >> while undefined.                                 *)
NoHttpCall ==
  [ pc |-> "idle", attempt |-> 0, requests |-> 0, settled |-> << >>,
    lastError |-> << >>, delay |-> 0, returned |-> << >> ]

-----------------------------------------------------------------------------
(* Objects *)

(* { ...obj, ...updates } *)
Spread(obj, updates) ==
  [ f \in DOMAIN obj |-> IF f \in DOMAIN updates THEN updates[f] ELSE obj[f] ]

FreeIds(h) == { i \in ObjIds : h[i] = NoObj }

NewId(h) == CHOOSE i \in FreeIds(h) : \A j \in FreeIds(h) : i <= j

(* The objects some handler in flight still holds a reference to. *)
Held(ts) == { ts[t].sess : t \in { x \in TurnSlots : ts[x].sess # 0 } }

(* The store as the handlers see it: the map, the heap it points into, and *)
(* `live', the objects that must survive when the map drops them.          *)
Store == [ sessions |-> sessions, heap |-> heap, live |-> Held(turns) ]

(* Array.prototype.findIndex, 1-based; 0 when nothing matches. *)
FindIndex(seq, Test(_)) ==
  IF \E i \in 1..Len(seq) : Test(seq[i])
  THEN CHOOSE i \in 1..Len(seq) : Test(seq[i]) /\ \A j \in 1..(i-1) : ~Test(seq[j])
  ELSE 0

----------------------------------------------------------------------------
(* SessionStore *)

EmptyCollected ==
  [ name |-> None, email |-> None, phone |-> None, partySize |-> 0,
    dateTime |-> None, useCase |-> None, specialRequests |-> None ]

NewSession(callId) ==
  [ callId |-> callId, createdAt |-> now, lastActivity |-> now,
    currentIntent |-> None, lastIntent |-> None,
    collected |-> EmptyCollected, lastMenuRead |-> << >>,
    transcript |-> << >>, crmActions |-> << >>, isActive |-> TRUE ]

(* this.sessions.set(callId, obj): the object the map held before is       *)
(* dropped, and reclaimed unless a handler still holds it.                 *)
MapSet(st, callId, obj) ==
  LET old == st.sessions[callId]
      id == NewId(st.heap)
      h1 == [st.heap EXCEPT ![id] = obj]
      h2 == IF old # 0 /\ old \notin st.live THEN [h1 EXCEPT ![old] = NoObj] ELSE h1
  IN [st EXCEPT !.sessions[callId] = id, !.heap = h2]

create(st, callId) == MapSet(st, callId, NewSession(callId))

(* this.sessions.get(callId): an object id, 0 for undefined *)
get(st, callId) == st.sessions[callId]

(* update making a session for a callId the map has none for. *)
updateUpserting(st, callId, updates) ==
  MapSet(st, callId,
         Spread(IF st.sessions[callId] = 0 THEN NewSession(callId)
                ELSE st.heap[st.sessions[callId]], updates))

update(st, callId, updates) ==
  IF st.sessions[callId] = 0 THEN st
  ELSE MapSet(st, callId, Spread(st.heap[st.sessions[callId]],
                                 [lastActivity |-> now] @@ updates))

(* updateCollected storing the new data in place of the collected data. *)
updateCollectedReplacing(st, callId, data) ==
  IF st.sessions[callId] = 0 THEN st
  ELSE update(st, callId, [collected |-> Spread(EmptyCollected, data)])

updateCollected(st, callId, data) ==
  IF st.sessions[callId] = 0 THEN st
  ELSE update(st, callId,
         [collected |-> Spread(st.heap[st.sessions[callId]].collected, data)])

(* addTranscript storing the entry in place of the transcript. *)
addTranscriptReplacing(st, callId, entry) ==
  IF st.sessions[callId] = 0 THEN st
  ELSE update(st, callId, [transcript |-> << entry >>])

addTranscript(st, callId, entry) ==
  IF st.sessions[callId] = 0 THEN st
  ELSE update(st, callId,
         [transcript |-> Append(st.heap[st.sessions[callId]].transcript, entry)])

(* addCRMAction storing the action in place of the actions. *)
addCRMActionReplacing(st, callId, action) ==
  IF st.sessions[callId] = 0 THEN st
  ELSE update(st, callId, [crmActions |-> << action >>])

addCRMAction(st, callId, action) ==
  IF st.sessions[callId] = 0 THEN st
  ELSE update(st, callId,
         [crmActions |-> Append(st.heap[st.sessions[callId]].crmActions, action)])

(* updateCRMAction appending the updates as an action of their own when   *)
(* no action has the key.                                                  *)
updateCRMActionUpserting(st, callId, idempotencyKey, updates) ==
  IF st.sessions[callId] = 0 THEN st
  ELSE LET actions == st.heap[st.sessions[callId]].crmActions
           HasKey(a) == a.idempotencyKey = idempotencyKey
           actionIndex == FindIndex(actions, HasKey)
       IN update(st, callId,
            [crmActions |->
               IF actionIndex = 0 THEN Append(actions, updates)
               ELSE [actions EXCEPT ![actionIndex] = Spread(actions[actionIndex], updates)]])

updateCRMAction(st, callId, idempotencyKey, updates) ==
  IF st.sessions[callId] = 0 THEN st
  ELSE LET actions == st.heap[st.sessions[callId]].crmActions
           HasKey(a) == a.idempotencyKey = idempotencyKey
           actionIndex == FindIndex(actions, HasKey)
       IN IF actionIndex = 0 THEN st
          ELSE update(st, callId,
                 [crmActions |->
                    [actions EXCEPT ![actionIndex] = Spread(actions[actionIndex], updates)]])

deactivate(st, callId) == update(st, callId, [isActive |-> FALSE])

CRMAction(type, key) ==
  [ type |-> type, status |-> "pending", idempotencyKey |-> key,
    error |-> None, result |-> None ]

----------------------------------------------------------------------------
(* Policy overrides *)

(* A rule of the table.  `alts' are the alternatives of a RegExp trigger,  *)
(* or the one literal of a string trigger.                                 *)
Rule(description, priority, alts) ==
  [ description |-> description, priority |-> priority, alts |-> alts,
    handler |-> description ]

BuiltinOverrides ==
  << Rule("Handle unavailability requests", 10,
          {"not available", "closed", "unavailable"}),
     Rule("Handle repeat requests", 9,
          {"repeat", "say that again", "didn't catch", "didn't hear"}),
     Rule("Handle requests to speak slower", 8,
          {"speak slower", "slow down", "too fast"}),
     Rule("Handle requests to speak faster", 8,
          {"speak faster", "speed up", "too slow"}),
     Rule("Handle spelling requests", 7, {"spell", "spelling", "letters"}),
     Rule("Handle menu repeat requests", 6,
          {"repeat.*menu", "menu.*again", "last.*menu"}),
     Rule("Handle clarification requests", 5,
          {"what", "huh", "excuse me", "pardon"}),
     Rule("Handle requests to speak with a human", 9,
          {"human", "person", "manager", "speak to someone"}),
     Rule("Handle complaints or problems", 8,
          {"problem", "issue", "complaint", "wrong", "mistake"}),
     Rule("Handle urgent requests", 10,
          {"emergency", "urgent", "asap", "right now"}),
     Rule("Handle cancellation requests", 7,
          {"cancel", "remove", "delete", "don't want"}) >>

(* The rules a caller of addPolicyOverride may add: a string trigger, a    *)
(* priority, and a handler that answers, returns null, or throws.          *)
CustomRules ==
  { [ description |-> "custom", priority |-> p, alts |-> {"repeat"}, handler |-> h ] :
      p \in {10, 8}, h \in {"custom answers", "custom returns null", "custom throws"} }

(* A handler's outcome: a response text, null, or an exception. *)
Returns(text) == [ kind |-> "response", text |-> text ]
ReturnsNull == [ kind |-> "null", text |-> << >> ]
Throws == [ kind |-> "throw", text |-> << >> ]

AgentEntries(session) ==
  LET IsAgent(e) == e.who = "agent" IN SelectSeq(session.transcript, IsAgent)

CallerEntries(session) ==
  LET IsCaller(e) == e.who = "caller" IN SelectSeq(session.transcript, IsCaller)

(* override.handler(session, userInput) *)
Handler(rule, session, u) ==
  CASE rule.handler = "Handle unavailability requests" ->
         IF Includes(u, "time") \/ Includes(u, "when")
         THEN Returns(<<"I understand you're asking about availability.">>)
         ELSE Returns(<<"I understand that time doesn't work.">>)
    [] rule.handler = "Handle repeat requests" ->
         IF Len(session.lastMenuRead) > 0
         THEN Returns(<<"Of course! Let me repeat that.">> \o session.lastMenuRead)
         ELSE IF Len(AgentEntries(session)) > 0
         THEN Returns(<<"Sure, let me repeat that.">>
                      \o AgentEntries(session)[Len(AgentEntries(session))].text)
         ELSE Returns(<<"I'm sorry, let me start over. How can I help you today?">>)
    [] rule.handler = "Handle requests to speak slower" ->
         Returns(<<"Of course, I'll speak more slowly.">>)
    [] rule.handler = "Handle requests to speak faster" ->
         Returns(<<"Sure, I'll pick up the pace.">>)
    [] rule.handler = "Handle spelling requests" ->
         IF session.collected.email # None
         THEN Returns(<<"Sure! Your email address is spelled:", session.collected.email>>)
         ELSE Returns(<<"What would you like me to spell for you?">>)
    [] rule.handler = "Handle menu repeat requests" ->
         IF Len(session.lastMenuRead) > 0
         THEN Returns(<<"Absolutely! Here are those menu items again:">>
                      \o session.lastMenuRead)
         ELSE Returns(<<"I haven't shared any specific menu items yet.">>)
    [] rule.handler = "Handle clarification requests" ->
         Returns(<<"I'm sorry, let me clarify.">>)
    [] rule.handler = "Handle requests to speak with a human" ->
         Returns(<<"I understand you'd like to speak with someone from our team.">>)
    [] rule.handler = "Handle complaints or problems" ->
         Returns(<<"I'm sorry to hear there's an issue.">>)
    [] rule.handler = "Handle urgent requests" ->
         Returns(<<"I understand this is urgent.">>)
    [] rule.handler = "Handle cancellation requests" ->
         IF session.collected.name # None \/ session.collected.email # None
         THEN Returns(<<"I understand you'd like to cancel.">>)
         ELSE Returns(<<"What would you like to cancel? I'm here to help.">>)
    [] rule.handler = "custom answers" -> Returns(<<"custom response">>)
    [] rule.handler = "custom returns null" -> ReturnsNull
    [] rule.handler = "custom throws" -> Throws

(* override.trigger.test(userInput) / cleanInput.includes(trigger) *)
Matches(rule, u) == IncludesAny(u, rule.alts)

(* The table taken in the order it stands in, without the sort. *)
NoSort(table) == table

(* [...POLICY_OVERRIDES].sort((a, b) => b.priority - a.priority): a stable *)
(* sort, so rules of equal priority keep their order in the table.         *)
SortByPriority(table) ==
  LET Before(i, j) == \/ table[i].priority > table[j].priority
                      \/ table[i].priority = table[j].priority /\ i < j
      Rank(i) == Cardinality({ j \in 1..Len(table) : Before(j, i) })
  IN [ k \in 1..Len(table) |-> table[CHOOSE i \in 1..Len(table) : Rank(i) = k - 1] ]

(* The loop of checkPolicyOverrides from position k of the sorted table.   *)
(* `propagate' is how an exception of a handler leaves the loop: the code  *)
(* catches it inside the loop, so it is FALSE there.                       *)
RECURSIVE OverrideLoop(_, _, _, _, _)
OverrideLoop(sorted, k, session, u, propagate) ==
  IF k > Len(sorted) THEN ReturnsNull
  ELSE IF ~Matches(sorted[k], u) THEN OverrideLoop(sorted, k + 1, session, u, propagate)
  ELSE LET r == Handler(sorted[k], session, u)
       IN IF r.kind = "response" /\ r.text # << >> THEN r
          ELSE IF r.kind = "throw" /\ propagate THEN Throws
          ELSE OverrideLoop(sorted, k + 1, session, u, propagate)

(* The loop with the try/catch around it instead of inside it. *)
CheckPropagating(table, session, u) ==
  OverrideLoop(SortByPriority(table), 1, session, u, TRUE)

checkPolicyOverrides(table, session, u) ==
  OverrideLoop(SortByPriority(table), 1, session, u, FALSE)

----------------------------------------------------------------------------
(* Selectors *)

hasRequiredData(session, intent) ==
  CASE intent = "lead" ->
         session.collected.name # None /\ session.collected.email # None
    [] intent = "booking" ->
         /\ session.collected.name # None
         /\ session.collected.partySize # 0
         /\ session.collected.dateTime # None
    [] intent = "menu" -> TRUE
    [] OTHER -> FALSE

getMissingFields(session, intent) ==
  CASE intent = "lead" ->
         {f \in {"name"} : session.collected.name = None}
         \cup {f \in {"email"} : session.collected.email = None}
    [] intent = "booking" ->
         {f \in {"name"} : session.collected.name = None}
         \cup {f \in {"party size"} : session.collected.partySize = 0}
         \cup {f \in {"date and time"} : session.collected.dateTime = None}
    [] OTHER -> {}

(* The number of keywords found in the caller's turns so far (joined with  *)
(* spaces by the code; no keyword spans two of the utterances above).      *)
CallerKeywordCount(session, kws) ==
  Cardinality({ kw \in kws :
     \E i \in 1..Len(session.transcript) :
        /\ session.transcript[i].who = "caller"
        /\ Includes(session.transcript[i].text[1], kw) })

ConfidenceLeadKeywords ==
  {"information", "details", "learn", "tell me", "contact", "email"}
ConfidenceBookingKeywords ==
  {"reservation", "table", "book", "reserve", "dinner", "lunch", "party"}
ConfidenceMenuKeywords ==
  {"menu", "food", "eat", "dish", "special", "what do you have"}

(* getIntentConfidence, as numerators over the common denominator 42:      *)
(* hits / 6 = 7 * hits / 42 and hits / 7 = 6 * hits / 42.                  *)
getIntentConfidence(session) ==
  [ lead |-> 7 * CallerKeywordCount(session, ConfidenceLeadKeywords),
    booking |-> 6 * CallerKeywordCount(session, ConfidenceBookingKeywords),
    menu |-> 7 * CallerKeywordCount(session, ConfidenceMenuKeywords) ]

----------------------------------------------------------------------------
(* AgentRouter.detectIntent *)

BookingKeywords ==
  {"reservation", "reserve", "book", "table", "dinner", "lunch",
   "party", "tonight", "tomorrow", "date", "time", "seat"}
MenuKeywords ==
  {"menu", "food", "eat", "dish", "special", "what do you have",
   "appetizer", "entree", "dessert", "drink", "wine", "price"}
LeadKeywords ==
  {"information", "details", "tell me about", "learn more",
   "contact", "email", "call back", "interested"}

(* Scores in units of 1/42: score + confidence * 2. *)
FinalScores(session, u) ==
  LET confidence == getIntentConfidence(session)
  IN [ booking |-> 42 * CountIncluded(u, BookingKeywords) + 2 * confidence.booking,
       menu |-> 42 * CountIncluded(u, MenuKeywords) + 2 * confidence.menu,
       lead |-> 42 * CountIncluded(u, LeadKeywords) + 2 * confidence.lead ]

detectIntent(session, u) ==
  LET f == FinalScores(session, u)
  IN IF f.booking > f.menu /\ f.booking > f.lead THEN "booking"
     ELSE IF f.menu > f.lead THEN "menu"
     ELSE "lead"

----------------------------------------------------------------------------
(* What an agent hands back for the part of a turn it ran: the store, the  *)
(* response if the turn got that far, and the external call it is          *)
(* suspended at otherwise.                                                 *)

Done(st, response) ==
  [ st |-> st, response |-> response, await |-> None, slots |-> remainingSlots,
    booked |-> reservations ]

Suspended(st, capability) ==
  [ st |-> st, response |-> << >>, await |-> capability, slots |-> remainingSlots,
    booked |-> reservations ]

----------------------------------------------------------------------------
(* LeadAgent *)

LeadExtractInformation(st, session, u) ==
  LET cap == Features(u).cap
      callId == session.callId
      s1 == IF session.collected.name = None /\ cap.leadName # None
            THEN updateCollected(st, callId, [name |-> cap.leadName]) ELSE st
      s2 == IF session.collected.email = None /\ cap.email # None
            THEN updateCollected(s1, callId, [email |-> cap.email]) ELSE s1
      s3 == IF session.collected.phone = None /\ cap.phone # None
            THEN updateCollected(s2, callId, [phone |-> cap.phone]) ELSE s2
      s4 == IF session.collected.useCase = None /\ cap.useCase # None
            THEN updateCollected(s3, callId, [useCase |-> cap.useCase]) ELSE s3
  IN s4

LeadConfirmationResponse(session) ==
  IF session.collected.name # None /\ session.collected.email # None
  THEN <<"Perfect! Let me confirm I have your information correct.",
         session.collected.name, session.collected.email>>
  ELSE <<"Let me make sure I have everything correct.">>

LeadGenerateResponse(session, u) ==
  LET missing == getMissingFields(session, "lead")
  IN IF Len(session.transcript) <= 1
     THEN <<"Hi there! Thanks for calling.">>
     ELSE IF "name" \in missing
     THEN IF Includes(u, "name") THEN <<"Great! And what's your name?">>
          ELSE <<"Perfect! I'd be happy to help with that. Can I get your name first?">>
     ELSE IF "email" \in missing
     THEN <<"What's the best email address to reach you at?", session.collected.name>>
     ELSE IF session.collected.useCase = None
     THEN <<"Excellent! Can you tell me a bit more about what you're interested in?">>
     ELSE LeadConfirmationResponse(session)

isNewRequest(u) ==
  IncludesAny(u, {"also", "another", "else", "different", "other", "more",
                  "reservation", "menu", "book", "table"})

LeadFinalResponse(session) ==
  <<"Wonderful! I've got your information.", session.collected.name,
    session.collected.useCase>>

(* The end of handleCompleteLead, after the try block. *)
LeadCompleteResponse(session, u) ==
  IF isNewRequest(u) THEN <<"Absolutely! What else can I help you with?">>
  ELSE LeadFinalResponse(session)

(* session.crmActions.find(...) !== undefined *)
Some(seq, Test(_)) == \E i \in 1..Len(seq) : Test(seq[i])

(* handleCompleteLead without the look-up of an earlier successful contact. *)
handleCompleteLeadUnchecked(st, session, u, key) ==
  IF session.collected.name # None /\ session.collected.email # None
  THEN Suspended(addCRMAction(st, session.callId, CRMAction("hubspot_contact", key)),
                 "hubspot")
  ELSE Done(st, LeadCompleteResponse(session, u))

(* handleCompleteLead up to `await hubspotService.upsertContact(...)'. *)
handleCompleteLead(st, session, u, key) ==
  LET Successful(a) == a.type = "hubspot_contact" /\ a.status = "success"
      existingContact == Some(session.crmActions, Successful)
  IN IF ~existingContact /\ session.collected.name # None /\ session.collected.email # None
     THEN Suspended(addCRMAction(st, session.callId, CRMAction("hubspot_contact", key)),
                    "hubspot")
     ELSE Done(st, LeadCompleteResponse(session, u))

(* What a service without credentials returns instead of calling out:     *)
(* { skipped: true, reason: 'not_configured' }.                            *)
NotConfigured == "skipped: not_configured"

(* The value the awaited call of a capability resolves to. *)
Resolved(outcome, id) == IF outcome = "skipped" THEN NotConfigured ELSE id

(* handleCompleteLead that, once upsertContact has returned, stores the    *)
(* collected data of the session object it holds.                          *)
LeadAfterUpsertWritingBack(st, session, u, key, outcome) ==
  LET s1 == IF outcome # "throw"
            THEN updateCRMAction(st, session.callId, key,
                                 [status |-> "success",
                                  result |-> Resolved(outcome, "contact id")])
            ELSE st
  IN Done(update(s1, session.callId, [collected |-> session.collected]),
          LeadCompleteResponse(session, u))

(* handleCompleteLead from the return of upsertContact on. *)
LeadAfterUpsert(st, session, u, key, outcome) ==
  LET Pending(a) == a.type = "hubspot_contact" /\ a.status = "pending"
      failedAction == FindIndex(session.crmActions, Pending)
      s1 == IF outcome # "throw"
            THEN updateCRMAction(st, session.callId, key,
                                 [status |-> "success",
                                  result |-> Resolved(outcome, "contact id")])
            ELSE IF failedAction # 0
            THEN updateCRMAction(st, session.callId,
                                 session.crmActions[failedAction].idempotencyKey,
                                 [status |-> "failed", error |-> "upsert failed"])
            ELSE st
  IN Done(s1, LeadCompleteResponse(session, u))

LeadRespond(st, session, u, key) ==
  IF hasRequiredData(session, "lead")
  THEN handleCompleteLead(st, session, u, key)
  ELSE Done(LeadExtractInformation(st, session, u), LeadGenerateResponse(session, u))

----------------------------------------------------------------------------
(* AvailabilityState, for the one slot the utterances above can ask for    *)
(* (today, 19:00, a dinner slot).  A slot is `available' exactly while its *)
(* remainingSlots is positive.                                             *)

DinnerMaxPartySize == 8

isTimeSlotAvailable(slots, dateTime, partySize) ==
  dateTime = "today 19:00" /\ slots > 0 /\ DinnerMaxPartySize >= partySize

----------------------------------------------------------------------------
(* BookingAgent *)

SpecialRequestKeywords ==
  {"birthday", "anniversary", "celebration", "window", "quiet",
   "allergy", "vegetarian", "vegan", "gluten", "wheelchair"}

BookingExtractInformation(st, session, u) ==
  LET cap == Features(u).cap
      callId == session.callId
      s1 == IF session.collected.name = None /\ cap.bookingName # None
            THEN updateCollected(st, callId, [name |-> cap.bookingName]) ELSE st
      s2 == IF session.collected.partySize = 0 /\ cap.partySize # 0
            THEN updateCollected(s1, callId, [partySize |-> cap.partySize]) ELSE s1
      s3 == IF session.collected.dateTime = None /\ cap.dateTime # None
            THEN updateCollected(s2, callId, [dateTime |-> cap.dateTime]) ELSE s2
      s4 == IF session.collected.phone = None /\ cap.phone # None
            THEN updateCollected(s3, callId, [phone |-> cap.phone]) ELSE s3
      s5 == IF /\ IncludesAny(u, {"special", "request", "need"})
               /\ IncludesAny(u, SpecialRequestKeywords)
            THEN updateCollected(s4, callId, [specialRequests |-> u]) ELSE s4
  IN s5

checkAvailabilityAndRespond(session) ==
  IF session.collected.partySize = 0 \/ session.collected.dateTime = None
  THEN <<"I need both the party size and date/time to check availability.">>
  ELSE IF isTimeSlotAvailable(remainingSlots, session.collected.dateTime,
                              session.collected.partySize)
  THEN <<"Great news! I have availability. What name should I put this reservation under?">>
  ELSE <<"alternative times">>

BookingConfirmationResponse(session) ==
  IF hasRequiredData(session, "booking")
  THEN <<"Perfect! Let me confirm your reservation. Is that correct?",
         session.collected.name, session.collected.dateTime>>
  ELSE <<"Let me confirm all the details for your reservation.">>

BookingGenerateResponse(session, u) ==
  LET missing == getMissingFields(session, "booking")
  IN IF Len(session.transcript) <= 1
     THEN <<"I'd be happy to help you make a reservation!">>
     ELSE IF "party size" \in missing
     THEN <<"Great! How many people will be joining you?">>
     ELSE IF "date and time" \in missing
     THEN <<"What date and time would work best for you?">>
     ELSE IF session.collected.partySize # 0 /\ session.collected.dateTime # None
     THEN checkAvailabilityAndRespond(session)
     ELSE IF "name" \in missing
     THEN <<"Excellent! What name should I put this reservation under?">>
     ELSE BookingConfirmationResponse(session)

hasConfirmedReservation(session) ==
  LET Successful(a) == a.type = "airtable_reservation" /\ a.status = "success"
  IN Some(session.crmActions, Successful)

isConfirmation(u) ==
  IncludesAny(u, {"yes", "yeah", "yep", "correct", "right", "confirm", "book it"})

isModificationRequest(u) ==
  IncludesAny(u, {"change", "modify", "different", "actually", "wait"})

(* finalizeReservation going on to createReservation without taking a      *)
(* place of the slot.                                                      *)
finalizeReservationUnreserved(st, session, key) ==
  IF ~hasRequiredData(session, "booking")
  THEN Done(st, <<"I'm missing some information.">>)
  ELSE Suspended(addCRMAction(st, session.callId, CRMAction("airtable_reservation", key)),
                 "airtable")

(* reserveSlot taking a place without looking whether one is left. *)
reserveSlotUnguarded(slots, booked, dateTime, partySize, reservationData) ==
  IF dateTime # "today 19:00" \/ DinnerMaxPartySize < partySize
  THEN [ returned |-> FALSE, slots |-> slots, booked |-> booked ]
  ELSE [ returned |-> TRUE, slots |-> slots - 1,
         booked |-> Append(booked, [ time |-> dateTime, partySize |-> partySize ]
                                    @@ reservationData) ]

(* AvailabilityState.reserveSlot(date, time, partySize, reservationData)   *)
(* on the slot with `slots' places left and the tracked reservations       *)
(* `booked': what it returns, and the places and reservations it leaves.   *)
(* (findIndex finds the slot when it is today's 19:00 slot, it is          *)
(* available with remainingSlots > 0, and the party fits.)                 *)
reserveSlot(slots, booked, dateTime, partySize, reservationData) ==
  IF ~(dateTime = "today 19:00" /\ slots > 0 /\ DinnerMaxPartySize >= partySize)
  THEN [ returned |-> FALSE, slots |-> slots, booked |-> booked ]
  ELSE [ returned |-> TRUE, slots |-> slots - 1,
         booked |-> Append(booked, [ time |-> dateTime, partySize |-> partySize ]
                                    @@ reservationData) ]

(* finalizeReservation going on to createReservation whatever reserveSlot  *)
(* has returned.                                                           *)
finalizeReservationUnchecked(st, session, key) ==
  IF ~hasRequiredData(session, "booking")
  THEN Done(st, <<"I'm missing some information.">>)
  ELSE LET s1 == addCRMAction(st, session.callId, CRMAction("airtable_reservation", key))
           reserved == reserveSlot(remainingSlots, reservations,
                                   session.collected.dateTime,
                                   session.collected.partySize,
                                   [ name |-> session.collected.name,
                                     phone |-> session.collected.phone,
                                     specialRequests |->
                                       session.collected.specialRequests ])
       IN [Suspended(s1, "airtable") EXCEPT
             !.slots = reserved.slots, !.booked = reserved.booked]

(* finalizeReservation up to `await airtableService.createReservation'. *)
finalizeReservation(st, session, key) ==
  IF ~hasRequiredData(session, "booking")
  THEN Done(st, <<"I'm missing some information.">>)
  ELSE LET s1 == addCRMAction(st, session.callId, CRMAction("airtable_reservation", key))
           reserved == reserveSlot(remainingSlots, reservations,
                                   session.collected.dateTime,
                                   session.collected.partySize,
                                   [ name |-> session.collected.name,
                                     phone |-> session.collected.phone,
                                     specialRequests |->
                                       session.collected.specialRequests ])
       IN IF ~reserved.returned
          THEN Done(updateCRMAction(s1, session.callId, key,
                      [status |-> "failed", error |-> "Time slot no longer available"]),
                    <<"I'm sorry, but that time slot is no longer available.">>)
          ELSE [Suspended(s1, "airtable") EXCEPT
                  !.slots = reserved.slots, !.booked = reserved.booked]

(* finalizeReservation from the return of createReservation on. *)
BookingAfterCreate(st, session, key, outcome) ==
  IF outcome # "throw"
  THEN Done(updateCRMAction(st, session.callId, key,
              [status |-> "success", result |-> Resolved(outcome, "reservation id")]),
            <<"Wonderful! Your reservation is confirmed.", session.collected.name>>)
  ELSE Done(st, <<"I apologize, but I'm having trouble finalizing your reservation.">>)

handleCompleteBooking(st, session, u, key) ==
  IF isConfirmation(u) THEN finalizeReservation(st, session, key)
  ELSE IF isModificationRequest(u)
  THEN Done(st, <<"Of course! What would you like to change about your reservation?">>)
  ELSE Done(st, <<"Would you like me to confirm this reservation for you?">>)

BookingRespond(st, session, u, key) ==
  IF hasRequiredData(session, "booking") /\ hasConfirmedReservation(session)
  THEN handleCompleteBooking(st, session, u, key)
  ELSE Done(BookingExtractInformation(st, session, u), BookingGenerateResponse(session, u))

----------------------------------------------------------------------------
(* MenuState and MenuAgent *)

MenuItems ==
  << [ said |-> "Grilled Salmon for $28", voiced |-> "Grilled Salmon - described, for $28", Category |-> "entree", priced |-> TRUE,
       notes |-> {"gluten-free"} ],
     [ said |-> "Beef Tenderloin for $42", voiced |-> "Beef Tenderloin - described, for $42", Category |-> "entree", priced |-> TRUE,
       notes |-> {} ],
     [ said |-> "Vegetarian Pasta for $22", voiced |-> "Vegetarian Pasta - described, for $22", Category |-> "entree", priced |-> TRUE,
       notes |-> {"vegetarian", "vegan"} ],
     [ said |-> "Caesar Salad for $14", voiced |-> "Caesar Salad - described, for $14", Category |-> "appetizer", priced |-> TRUE,
       notes |-> {} ],
     [ said |-> "Lobster Bisque for $16", voiced |-> "Lobster Bisque - described, for $16", Category |-> "appetizer", priced |-> TRUE,
       notes |-> {} ],
     [ said |-> "Chocolate Lava Cake for $12", voiced |-> "Chocolate Lava Cake - described, for $12", Category |-> "dessert", priced |-> TRUE,
       notes |-> {} ],
     [ said |-> "Pan-Seared Duck for $36", voiced |-> "Pan-Seared Duck - described, for $36", Category |-> "special", priced |-> TRUE,
       notes |-> {} ],
     [ said |-> "Truffle Risotto for $32", voiced |-> "Truffle Risotto - described, for $32", Category |-> "special", priced |-> TRUE,
       notes |-> {"vegetarian"} ] >>

getItemsByCategory(category) ==
  LET In(item) == item.Category = category IN SelectSeq(MenuItems, In)

getTodaysSpecials == getItemsByCategory("special")

(* getCategories(), in the order of first appearance in the menu *)
Categories == <<"entree", "appetizer", "dessert", "special">>

filterByDietary(dietary) ==
  LET Noted(item) == IF dietary = "gluten" THEN "gluten-free" \in item.notes
                     ELSE dietary \in item.notes
  IN SelectSeq(MenuItems, Noted)

DietaryKeywords == <<"vegetarian", "vegan", "gluten", "allergy", "dairy">>

FirstIncluded(u, kws) ==
  LET Inc(kw) == Includes(u, kw) IN FindIndex(kws, Inc)

analyzeMenuRequest(u) ==
  LET requestedCategory == FirstIncluded(u, Categories)
      dietaryRequest == FirstIncluded(u, DietaryKeywords)
  IN IF Includes(u, "special") \/ Includes(u, "today")
     THEN [ type |-> "specials", items |-> getTodaysSpecials ]
     ELSE IF requestedCategory # 0
     THEN [ type |-> "category",
            items |-> getItemsByCategory(Categories[requestedCategory]) ]
     ELSE IF Includes(u, "price") \/ Includes(u, "cost") \/ Includes(u, "how much")
     THEN [ type |-> "pricing", items |-> MenuItems ]
     ELSE IF dietaryRequest # 0
     THEN [ type |-> "dietary",
            items |-> filterByDietary(DietaryKeywords[dietaryRequest]) ]
     ELSE IF Includes(u, "repeat") \/ Includes(u, "again") \/ Includes(u, "last")
     THEN [ type |-> "repeat", items |-> << >> ]
     ELSE [ type |-> "overview", items |-> MenuItems ]

(* menuState.formatForVoice(items): name, description, price and notes of  *)
(* each item                                                               *)
formatForVoice(items) == [ i \in 1..Len(items) |-> items[i].voiced ]

(* items.map(item => `${item.Name} for $${item.Price}`) *)
menuDescriptions(items) == [ i \in 1..Len(items) |-> items[i].said ]

(* The agent texts of at most 50 characters (all others are longer). *)
ShortTexts == {"Hi there! What can I do for you?", "Good day! How may I assist you?"}

LongerThan50(text) == Len(text) > 1 \/ text[1] \notin ShortTexts

(* handleRepeatRequest formatting the specials anew. *)
handleRepeatRequestRegenerating(session) ==
  <<"Of course! Here are those menu items again:">> \o formatForVoice(getTodaysSpecials)

handleRepeatRequest(session) ==
  IF Len(session.lastMenuRead) > 0
  THEN <<"Of course! Here are those menu items again:">> \o session.lastMenuRead
  ELSE IF Len(AgentEntries(session)) > 0
          /\ LongerThan50(AgentEntries(session)[Len(AgentEntries(session))].text)
  THEN <<"Sure! Let me repeat that:">>
       \o AgentEntries(session)[Len(AgentEntries(session))].text
  ELSE <<"I haven't shared any specific menu items yet.">>

generateMenuResponse(session, request) ==
  CASE request.type = "specials" ->
         IF Len(session.transcript) <= 1
         THEN <<"I'd love to tell you about our menu!", "Today's specials are:">>
              \o formatForVoice(getTodaysSpecials)
         ELSE <<"Today's specials are:">> \o formatForVoice(getTodaysSpecials)
    [] request.type = "category" ->
         <<"Our options include:">> \o formatForVoice(request.items)
    [] request.type = "pricing" ->
         <<"Here are some examples of our pricing:">>
         \o formatForVoice(SubSeq(request.items, 1, 5))
    [] request.type = "dietary" ->
         IF Len(request.items) = 0
         THEN <<"I don't see any items specifically marked for that diet.">>
         ELSE <<"I'd recommend:">> \o formatForVoice(request.items)
    [] request.type = "repeat" -> handleRepeatRequest(session)
    [] OTHER ->
         IF Len(session.transcript) <= 1
         THEN <<"I'd love to tell you about our menu!", "Today's specials are:">>
              \o formatForVoice(getTodaysSpecials)
         ELSE <<"Our menu has something for everyone.">>

MenuRespond(st, session, u) ==
  LET menuRequest == analyzeMenuRequest(u)
      response == generateMenuResponse(session, menuRequest)
  IN IF Len(menuRequest.items) > 0
     THEN Done(update(st, session.callId,
                      [lastMenuRead |-> menuDescriptions(menuRequest.items)]),
               response)
     ELSE Done(st, response)

----------------------------------------------------------------------------
(* AgentRouter *)

Apology == <<"I apologize, but I'm having trouble processing your request right now.">>

handleUnknownIntent == <<"I'd be happy to help you! I can assist with making a reservation, telling you about our menu and specials, or providing general information.">>

(* The switch of processMessage. *)
Dispatch(st, session, u, key) ==
  CASE session.currentIntent = "lead" -> LeadRespond(st, session, u, key)
    [] session.currentIntent = "booking" -> BookingRespond(st, session, u, key)
    [] session.currentIntent = "menu" -> MenuRespond(st, session, u)
    [] OTHER -> Done(st, handleUnknownIntent)

(* processMessage with the override consulted only after the agent ran. *)
processMessageOverrideLast(st, sid, u, table, key) ==
  CHOOSE told \in
    { LET s1 == IF detected # None THEN [st EXCEPT !.heap[sid].currentIntent = detected]
                ELSE st
          r == Dispatch(s1, s1.heap[sid], u, key)
      IN IF policyResponse.kind = "response" /\ r.await = None
         THEN [ st |-> r.st, response |-> policyResponse.text, await |-> None,
                slots |-> r.slots, booked |-> r.booked, override |-> TRUE,
                detected |-> None, agent |-> None ]
         ELSE [ st |-> r.st, response |-> r.response, await |-> r.await,
                slots |-> r.slots, booked |-> r.booked, override |-> FALSE,
                detected |-> detected, agent |-> s1.heap[sid].currentIntent ] :
        policyResponse \in {checkPolicyOverrides(table, st.heap[sid], u)},
        detected \in {IF st.heap[sid].currentIntent = None
                      THEN detectIntent(st.heap[sid], u) ELSE None} } : TRUE

(* processMessage(session, userInput) up to its first suspension, on the   *)
(* session object `sid'.  The result also tells what the turn did: whether *)
(* an override answered, the intent detected (if detection ran) and the    *)
(* agent the turn was dispatched to.                                       *)
processMessage(st, sid, u, table, key) ==
  LET Told(x, ov, det, ag) ==
        [ st |-> x.st, response |-> x.response, await |-> x.await, slots |-> x.slots,
          booked |-> x.booked, override |-> ov, detected |-> det, agent |-> ag ]
      Routed(detected) ==
        LET s1 == IF detected # None
                  THEN [st EXCEPT !.heap[sid].currentIntent = detected] ELSE st
        IN { Told(r, FALSE, detected, s1.heap[sid].currentIntent) :
               r \in {Dispatch(s1, s1.heap[sid], u, key)} }
  IN CHOOSE told \in
       UNION { IF policyResponse.kind = "throw"
               THEN {Told(Done(st, Apology), FALSE, None, None)}
               ELSE IF policyResponse.kind = "response"
               THEN {Told(Done(st, policyResponse.text), TRUE, None, None)}
               ELSE UNION { Routed(detected) :
                              detected \in {IF st.heap[sid].currentIntent = None
                                            THEN detectIntent(st.heap[sid], u)
                                            ELSE None} } :
                 policyResponse \in {checkPolicyOverrides(table, st.heap[sid], u)} } : TRUE

(* A turn in which the agent the message is dispatched to raises an        *)
(* exception, `before' it has changed the store or `after' (once its       *)
(* extraction has run), with the exception leaving processMessage.         *)
processMessageUncaught(st, sid, u, table, key, where) ==
  CHOOSE told \in
    { LET s1 == IF detected # None THEN [st EXCEPT !.heap[sid].currentIntent = detected]
                ELSE st
          r == Dispatch(s1, s1.heap[sid], u, key)
      IN [ st |-> IF where = "after" THEN r.st ELSE s1, response |-> << >>,
           await |-> None,
           slots |-> IF where = "after" THEN r.slots ELSE remainingSlots,
           booked |-> IF where = "after" THEN r.booked ELSE reservations,
           override |-> FALSE, detected |-> detected,
           agent |-> s1.heap[sid].currentIntent ] :
        detected \in {IF st.heap[sid].currentIntent = None
                      THEN detectIntent(st.heap[sid], u) ELSE None} } : TRUE

(* processMessage for a turn in which the agent the message is dispatched  *)
(* to raises an exception, `before' it has changed the store or `after'    *)
(* (once its extraction has run): the catch block returns the apology.     *)
processMessageRaising(st, sid, u, table, key, where) ==
  CHOOSE told \in
    { LET s1 == IF detected # None THEN [st EXCEPT !.heap[sid].currentIntent = detected]
                ELSE st
          r == Dispatch(s1, s1.heap[sid], u, key)
      IN [ st |-> IF where = "after" THEN r.st ELSE s1, response |-> Apology,
           await |-> None,
           slots |-> IF where = "after" THEN r.slots ELSE remainingSlots,
           booked |-> IF where = "after" THEN r.booked ELSE reservations,
           override |-> FALSE, detected |-> detected,
           agent |-> s1.heap[sid].currentIntent ] :
        detected \in {IF st.heap[sid].currentIntent = None
                      THEN detectIntent(st.heap[sid], u) ELSE None} } : TRUE

(* processMessage from the return of the external call on. *)
processMessageResume(st, sid, u, key, capability, outcome) ==
  IF capability = "hubspot"
  THEN LeadAfterUpsert(st, st.heap[sid], u, key, outcome)
  ELSE BookingAfterCreate(st, st.heap[sid], key, outcome)

(* The acknowledgment keyed off the intent the session is switched from.   *)
getIntentSwitchAcknowledmentOfOld(oldIntent, newIntent) ==
  IF oldIntent = None THEN << >>
  ELSE CASE oldIntent = "booking" -> <<"Of course, let me help you with a reservation.">>
         [] oldIntent = "menu" -> <<"Absolutely! I'd love to tell you about our menu.">>
         [] oldIntent = "lead" -> <<"Sure, I can get you that information.">>
         [] OTHER -> <<"Let me help you with that.">>

getIntentSwitchAcknowledment(oldIntent, newIntent) ==
  IF oldIntent = None THEN << >>
  ELSE CASE newIntent = "booking" -> <<"Of course, let me help you with a reservation.">>
         [] newIntent = "menu" -> <<"Absolutely! I'd love to tell you about our menu.">>
         [] newIntent = "lead" -> <<"Sure, I can get you that information.">>
         [] OTHER -> <<"Let me help you with that.">>

Greetings ==
  { "Hello! Thanks for calling. How can I help you today?",
    "Hi there! What can I do for you?",
    "Good day! How may I assist you?" }

----------------------------------------------------------------------------
(* The state machine *)

(* What handleVapiWebhook has answered the request of a turn with: nothing *)
(* yet, res.status(200).json({ received: true }), or the body of its catch *)
(* block with the message of the error.                                    *)
NoReply == [ status |-> 0, received |-> FALSE, error |-> None, message |-> None ]
Received == [ status |-> 200, received |-> TRUE, error |-> None, message |-> None ]
ProcessingFailed(message) ==
  [ status |-> 200, received |-> TRUE, error |-> "Processing failed",
    message |-> message ]

IdleTurn ==
  [ pc |-> "idle", callId |-> None, sess |-> 0, userInput |-> None, key |-> 0,
    await |-> None, ack |-> << >>, viaWebhook |-> TRUE, rules |-> 0, response |-> << >>,
    override |-> FALSE, detected |-> None, agent |-> None, raised |-> None,
    http |-> NoReply ]

Init ==
  /\ sessions = [ c \in CallIds |-> 0 ]
  /\ heap = [ i \in ObjIds |-> NoObj ]
  /\ turns = [ t \in TurnSlots |-> IdleTurn ]
  /\ nturns = 0
  /\ ncalls = 0
  /\ nextKey = 1
  /\ POLICY_OVERRIDES = BuiltinOverrides
  /\ remainingSlots \in 0..InitSlots
  /\ reservations = << >>
  /\ httpCall = NoHttpCall
  /\ now = 0
  /\ chosen = [ c \in CallIds |-> None ]

(* Object ids carry no meaning: after a step the unreachable objects are   *)
(* reclaimed and the reachable ones renamed by where they are referenced   *)
(* from (the map first, then the handlers in slot order).                  *)
Refs(m, ts) ==
  [ i \in 1..(Len(TheCalls) + MaxInflight) |->
      IF i <= Len(TheCalls) THEN m[TheCalls[i]] ELSE ts[i - Len(TheCalls)].sess ]

Renamed(m, ts, id) ==
  IF id = 0 THEN 0
  ELSE CHOOSE i \in 1..(Len(TheCalls) + MaxInflight) :
         /\ Refs(m, ts)[i] = id
         /\ \A j \in 1..(i - 1) : Refs(m, ts)[j] # id

Settled(st, ts) ==
  LET refs == Refs(st.sessions, ts)
      Source(i) == { id \in ObjIds : /\ \E k \in DOMAIN refs : refs[k] = id
                                     /\ Renamed(st.sessions, ts, id) = i }
  IN [ sessions |-> [ c \in CallIds |-> Renamed(st.sessions, ts, st.sessions[c]) ],
       turns |-> [ t \in TurnSlots |->
                     [ts[t] EXCEPT !.sess = Renamed(st.sessions, ts, ts[t].sess)] ],
       heap |-> [ i \in ObjIds |->
                    IF Source(i) # {} THEN st.heap[CHOOSE id \in Source(i) : TRUE]
                    ELSE NoObj ] ]

Settle(st, ts) ==
  \E s \in {st}, held \in {ts} :
  \E n \in {Settled(s, held)} :
    /\ sessions' = n.sessions
    /\ turns' = n.turns
    /\ heap' = n.heap

Awaiting(t) == turns[t].pc = "await"

FreeSlot(t) ==
  /\ ~Awaiting(t)
  /\ \A x \in TurnSlots : x < t => Awaiting(x)

(* The history of the call's intent: the agent of the first routed turn. *)
Chose(c, agent) ==
  chosen' = IF chosen[c] = None /\ agent # None THEN [chosen EXCEPT ![c] = agent]
            ELSE chosen

(* handleCallStarted: create the session and add the greeting. *)
handleCallStarted(c, greeting) ==
  /\ ncalls' = ncalls + 1
  /\ Settle(addTranscript(create(Store, c), c, [who |-> "agent", text |-> <<greeting>>]),
            turns)
  /\ chosen' = [chosen EXCEPT ![c] = None]
  /\ UNCHANGED << httpCall, now, nturns, nextKey, POLICY_OVERRIDES, remainingSlots, reservations >>

(* A call.started event of a run that delivers at most MaxCalls of them.   *)
CallStarted(c, greeting) == ncalls < MaxCalls /\ handleCallStarted(c, greeting)

(* handleCallStarted for an event whose call.phoneNumber no business has   *)
(* been assigned (getBusinessByPhone returns undefined): the handler       *)
(* returns before it creates a session.                                    *)
CallStartedUnassigned(c) ==
  /\ ncalls < MaxCalls
  /\ ncalls' = ncalls + 1
  /\ UNCHANGED << httpCall, now, sessions, heap, turns, nturns, nextKey, POLICY_OVERRIDES,
                  remainingSlots, reservations, chosen >>

(* The record of a turn that has returned from processMessage, or is       *)
(* suspended inside it.                                                    *)
Finished(c, u, r, webhook, ack) ==
  [ IdleTurn EXCEPT !.pc = "done", !.callId = c, !.userInput = u,
                    !.viaWebhook = webhook, !.ack = ack, !.rules = Len(POLICY_OVERRIDES),
                    !.response = ack \o r.response, !.override = r.override,
                    !.detected = r.detected, !.agent = r.agent,
                    !.http = IF webhook THEN Received ELSE NoReply ]

Suspend(turn, sid, key, capability) ==
  [turn EXCEPT !.pc = "await", !.sess = sid, !.key = key, !.await = capability,
               !.http = NoReply]

(* The uuidv4() value `key' has been given to a CRM action of the call. *)
KeyUsed(st, c, key) ==
  /\ st.sessions[c] # 0
  /\ \E i \in 1..Len(st.heap[st.sessions[c]].crmActions) :
       st.heap[st.sessions[c]].crmActions[i].idempotencyKey = key

(* What a handler leaves behind once processMessage has returned r.        *)
Answered(t, c, u, r, sid, webhook, ack) ==
  /\ remainingSlots' = r.slots
  /\ reservations' = r.booked
  /\ IF r.await = None
     THEN /\ Settle(IF webhook
                    THEN addTranscript(r.st, c, [who |-> "agent", text |-> r.response])
                    ELSE r.st,
                    [turns EXCEPT ![t] = Finished(c, u, r, webhook, ack)])
          /\ nextKey' = IF KeyUsed(r.st, c, nextKey) THEN nextKey + 1 ELSE nextKey
     ELSE /\ Settle(r.st, [turns EXCEPT ![t] =
                             Suspend(Finished(c, u, r, webhook, ack), sid, nextKey, r.await)])
          /\ nextKey' = nextKey + 1

(* handleASRFinal, up to the end of the handler or to the external call    *)
(* the turn is suspended at.                                               *)
ASRFinal(t, c, u) ==
  /\ nturns < MaxTurns
  /\ FreeSlot(t)
  /\ nturns' = nturns + 1
  /\ UNCHANGED << httpCall, now, ncalls, POLICY_OVERRIDES >>
  /\ IF get(Store, c) = 0
     THEN /\ turns' = [turns EXCEPT ![t] = [IdleTurn EXCEPT !.pc = "done", !.callId = c,
                                                            !.userInput = u,
                                                            !.http = Received]]
          /\ UNCHANGED << sessions, heap, nextKey, remainingSlots, reservations, chosen >>
     ELSE \E session \in {get(Store, c)} :
          \E s0 \in {addTranscript([Store EXCEPT !.live = Held(turns) \cup {session}],
                                   c, [who |-> "caller", text |-> <<u>>])} :
          \E r \in {processMessage(s0, session, u, POLICY_OVERRIDES, nextKey)} :
             /\ Chose(c, r.agent)
             /\ Answered(t, c, u, r, session, TRUE, << >>)

(* handleASRFinal for a turn whose agent raises an exception: no override  *)
(* answers the turn, and the agent is not suspended at an external call.   *)
ASRFinalRaising(t, c, u, where) ==
  /\ nturns < MaxTurns
  /\ FreeSlot(t)
  /\ get(Store, c) # 0
  /\ nturns' = nturns + 1
  /\ UNCHANGED << httpCall, now, ncalls, POLICY_OVERRIDES >>
  /\ \E session \in {get(Store, c)} :
     \E s0 \in {addTranscript([Store EXCEPT !.live = Held(turns) \cup {session}],
                              c, [who |-> "caller", text |-> <<u>>])} :
     \E p \in {processMessage(s0, session, u, POLICY_OVERRIDES, nextKey)} :
       /\ p.agent # None
       /\ p.await = None
       /\ \E r \in {processMessageRaising(s0, session, u, POLICY_OVERRIDES, nextKey, where)} :
            /\ Chose(c, r.agent)
            /\ remainingSlots' = r.slots
            /\ reservations' = r.booked
            /\ Settle(addTranscript(r.st, c, [who |-> "agent", text |-> r.response]),
                      [turns EXCEPT ![t] = [Finished(c, u, r, TRUE, << >>) EXCEPT
                                              !.raised = where]])
            /\ UNCHANGED nextKey

(* The external calls answered one at a time, in the order they were made. *)
ExternalReturnsInOrder(t, outcome) ==
  /\ Awaiting(t)
  /\ \A t2 \in TurnSlots : Awaiting(t2) => turns[t2].key >= turns[t].key
  /\ \E r \in {processMessageResume(Store, turns[t].sess, turns[t].userInput,
                                    turns[t].key, turns[t].await, outcome)} :
       Settle(IF turns[t].viaWebhook
              THEN addTranscript(r.st, turns[t].callId,
                                 [who |-> "agent", text |-> r.response])
              ELSE r.st,
              [turns EXCEPT ![t] = [turns[t] EXCEPT !.pc = "done", !.sess = 0,
                                                    !.await = None,
                                                    !.http = IF turns[t].viaWebhook
                                                             THEN Received ELSE NoReply,
                                                    !.response = turns[t].ack \o r.response]])
  /\ UNCHANGED << httpCall, now, nturns, ncalls, nextKey, POLICY_OVERRIDES, remainingSlots, reservations, chosen >>

(* The external call a turn is suspended at returns or throws, and the     *)
(* turn runs to the end of its handler.                                    *)
ExternalReturns(t, outcome) ==
  /\ Awaiting(t)
  /\ \E r \in {processMessageResume(Store, turns[t].sess, turns[t].userInput,
                                    turns[t].key, turns[t].await, outcome)} :
       Settle(IF turns[t].viaWebhook
              THEN addTranscript(r.st, turns[t].callId,
                                 [who |-> "agent", text |-> r.response])
              ELSE r.st,
              [turns EXCEPT ![t] = [turns[t] EXCEPT !.pc = "done", !.sess = 0,
                                                    !.await = None,
                                                    !.http = IF turns[t].viaWebhook
                                                             THEN Received ELSE NoReply,
                                                    !.response = turns[t].ack \o r.response]])
  /\ UNCHANGED << httpCall, now, nturns, ncalls, nextKey, POLICY_OVERRIDES, remainingSlots, reservations, chosen >>

(* handleCallEnded *)
CallEnded(c) ==
  /\ get(Store, c) # 0
  /\ heap[get(Store, c)].isActive
  /\ Settle(deactivate(Store, c), turns)
  /\ UNCHANGED << httpCall, now, nturns, ncalls, nextKey, POLICY_OVERRIDES, remainingSlots, reservations, chosen >>

(* addPolicyOverride *)
addPolicyOverride(rule) ==
  /\ Len(POLICY_OVERRIDES) < Len(BuiltinOverrides) + MaxCustomRules
  /\ POLICY_OVERRIDES' = Append(POLICY_OVERRIDES, rule)
  /\ UNCHANGED << httpCall, now, sessions, heap, turns, nturns, ncalls, nextKey, remainingSlots, reservations, chosen >>

(* A caller of the router takes the session from the store and calls      *)
(* switchIntent(session, newIntent, userInput).                            *)
switchIntent(t, c, newIntent, u) ==
  /\ nturns < MaxTurns
  /\ FreeSlot(t)
  /\ get(Store, c) # 0
  /\ nturns' = nturns + 1
  /\ UNCHANGED << httpCall, now, ncalls, POLICY_OVERRIDES >>
  /\ chosen' = [chosen EXCEPT ![c] = newIntent]
  /\ \E session \in {get(Store, c)} :
     \E s0 \in {[Store EXCEPT !.live = Held(turns) \cup {session},
                              !.heap[session].currentIntent = newIntent,
                              !.heap[session].lastIntent = heap[session].currentIntent]} :
     \E r \in {processMessage(s0, session, u, POLICY_OVERRIDES, nextKey)} :
        Answered(t, c, u, r, session, FALSE,
                 getIntentSwitchAcknowledment(heap[session].currentIntent, newIntent))

(* A reservation made outside the call is recorded in the session through *)
(* the store: addCRMAction, then updateCRMAction to success.               *)
RecordReservation(c) ==
  /\ get(Store, c) # 0
  /\ ~hasConfirmedReservation(heap[get(Store, c)])
  /\ Settle(updateCRMAction(
              addCRMAction([Store EXCEPT !.live = Held(turns)], c,
                           CRMAction("airtable_reservation", nextKey)),
              c, nextKey, [status |-> "success", result |-> "recorded reservation"]),
            turns)
  /\ nextKey' = nextKey + 1
  /\ UNCHANGED << httpCall, now, nturns, ncalls, POLICY_OVERRIDES, remainingSlots, reservations, chosen >>

(* SessionStore.delete: this.sessions.delete(callId) *)
delete(c) ==
  /\ get(Store, c) # 0
  /\ Settle([Store EXCEPT !.sessions[c] = 0], turns)
  /\ UNCHANGED << httpCall, now, nturns, ncalls, nextKey, POLICY_OVERRIDES, remainingSlots, reservations, chosen >>

(* The clock advances by one unit (12 hours).                              *)
Tick ==
  /\ now < MaxClock
  /\ now' = now + 1
  /\ UNCHANGED << httpCall, sessions, heap, turns, nturns, ncalls, nextKey, POLICY_OVERRIDES,
                  remainingSlots, reservations, chosen >>

(* The 24 hours of SessionStore.cleanup's cutoffTime, in clock units.      *)
Retention == 2

(* The test of cleanup's loop, with every session taken for deletable      *)
(* whatever its isActive flag.                                             *)
isExpiredWhileActive(session) == session.lastActivity < now - Retention

(* The test of the loop of SessionStore.cleanup:                           *)
(* !session.isActive && session.lastActivity < cutoffTime.                 *)
isExpired(session) == ~session.isActive /\ session.lastActivity < now - Retention

(* SessionStore.cleanup, the periodic sweep: every stored session that     *)
(* passes the test is deleted from the map.                                *)
cleanup ==
  /\ Settle([Store EXCEPT !.sessions = [c \in CallIds |->
                IF sessions[c] # 0 /\ isExpired(heap[sessions[c]]) THEN 0
                ELSE sessions[c]]],
            turns)
  /\ UNCHANGED << httpCall, now, nturns, ncalls, nextKey, POLICY_OVERRIDES, remainingSlots, reservations, chosen >>

NoneAwaiting == \A t \in TurnSlots : ~Awaiting(t)

(* The request bodies a caller of POST /vapi/events may send: a type, and  *)
(* the fields of the event schemas, each present or not (None).            *)
Events ==
  [ type : {"call.started", "asr.final", "call.ended", "unknown.event"},
    callId : OneCall \cup {None},
    transcript : {None, "Yes that is correct",
                  "My name is Test User and email is test@example.com"},
    call : {None, "call"},
    functionCall : {None} ]

(* VapiWebhookEventSchema accepting a call.started or call.ended event     *)
(* whether or not it has the call object.                                  *)
ValidIgnoringCall(ev) ==
  /\ ev.callId # None
  /\ CASE ev.type \in {"call.started", "call.ended"} -> TRUE
       [] ev.type \in {"asr.partial", "asr.final"} -> ev.transcript # None
       [] ev.type = "function.call" -> ev.functionCall # None
       [] OTHER -> FALSE

(* VapiWebhookEventSchema.parse(req.body) does not throw: the type is one  *)
(* of the union's literals and the fields the schema of that type requires *)
(* are there.                                                              *)
Valid(ev) ==
  /\ ev.callId # None
  /\ CASE ev.type \in {"call.started", "call.ended"} -> ev.call # None
       [] ev.type \in {"asr.partial", "asr.final"} -> ev.transcript # None
       [] ev.type = "function.call" -> ev.functionCall # None
       [] OTHER -> FALSE

(* The message of the ZodError: the code of its first issue. *)
ParseError(ev) ==
  IF ev.type \notin {"call.started", "call.ended", "asr.partial", "asr.final",
                     "function.call"}
  THEN "invalid_union_discriminator"
  ELSE "invalid_type"

processVapiEvent(t, ev) ==
  \/ ev.type = "call.started" /\ \E g \in Greetings : CallStarted(ev.callId, g)
  \/ ev.type = "asr.final" /\ ASRFinal(t, ev.callId, ev.transcript)
  \/ ev.type = "call.ended" /\ CallEnded(ev.callId)

(* handleVapiWebhook: the body is parsed, and processed if it is an event; *)
(* the error of the parse is caught and answered 200 with its message.     *)
handleVapiWebhook(t, ev) ==
  IF Valid(ev)
  THEN processVapiEvent(t, ev)
  ELSE /\ FreeSlot(t)
       /\ turns' = [turns EXCEPT ![t] =
                      [IdleTurn EXCEPT !.pc = "done",
                                       !.http = ProcessingFailed(ParseError(ev))]]
       /\ UNCHANGED << httpCall, now, sessions, heap, nturns, ncalls, nextKey, POLICY_OVERRIDES,
                       remainingSlots, reservations, chosen >>

(* The webhook server started without HubSpot and Airtable credentials:    *)
(* every call of a capability returns the `not configured' value.  Events  *)
(* are delivered one after the other.                                      *)
NextUnconfigured ==
  \/ \E c \in OneCall, g \in Greetings : CallStarted(c, g)
  \/ \E t \in TurnSlots, c \in OneCall, u \in LeadUtterances \cup CompletionUtterances :
       NoneAwaiting /\ nturns < MaxUnconfiguredTurns /\ ASRFinal(t, c, u)
  \/ \E c \in OneCall : NoneAwaiting /\ RecordReservation(c)
  \/ \E t \in TurnSlots : ExternalReturns(t, "skipped")

SpecUnconfigured == Init /\ [][NextUnconfigured]_vars

(* The webhook server with its events delivered one after the other: a     *)
(* turn is delivered only when the one before has been answered.           *)
Next ==
  \/ \E c \in OneCall, g \in Greetings : CallStarted(c, g)
  \/ \E t \in TurnSlots, c \in OneCall, u \in Utterances : NoneAwaiting /\ ASRFinal(t, c, u)
  \/ \E t \in TurnSlots, o \in {"ok", "throw"} : ExternalReturns(t, o)
  \/ \E c \in OneCall : NoneAwaiting /\ CallEnded(c)

Spec == Init /\ [][Next]_vars

(* The webhook server with events of one call delivered while earlier      *)
(* turns of the call are still suspended at their external calls.          *)
NextConcurrent ==
  \/ \E c \in OneCall, g \in Greetings : CallStarted(c, g)
  \/ \E t \in TurnSlots, c \in OneCall, u \in Utterances : ASRFinal(t, c, u)
  \/ \E t \in TurnSlots, o \in {"ok", "throw"} : ExternalReturns(t, o)
  \/ \E c \in OneCall : CallEnded(c)

SpecConcurrent == Init /\ [][NextConcurrent]_vars

(* The router and the override table used as a library: serial turns,      *)
(* rules added at run time, explicit intent switches.                      *)
NextApi ==
  \/ \E c \in OneCall, g \in Greetings : CallStarted(c, g)
  \/ \E t \in TurnSlots, c \in OneCall, u \in Utterances :
       NoneAwaiting /\ nturns < MaxApiTurns /\ ASRFinal(t, c, u)
  \/ \E t \in TurnSlots, o \in {"ok", "throw"} : ExternalReturns(t, o)
  \/ \E rule \in CustomRules : addPolicyOverride(rule)
  \/ \E t \in TurnSlots, c \in OneCall, i \in Intents, u \in Utterances :
       NoneAwaiting /\ nturns < MaxApiTurns /\ switchIntent(t, c, i, u)

SpecApi == Init /\ [][NextApi]_vars

(* The webhook server with agents that may raise exceptions and rules      *)
(* added at run time, its events delivered one after the other.            *)
NextFault ==
  \/ \E c \in OneCall, g \in Greetings : CallStarted(c, g)
  \/ \E t \in TurnSlots, c \in OneCall, u \in Utterances :
       NoneAwaiting /\ nturns < MaxFaultTurns /\ ASRFinal(t, c, u)
  \/ \E t \in TurnSlots, c \in OneCall, u \in Utterances, where \in {"before", "after"} :
       NoneAwaiting /\ nturns < MaxFaultTurns /\ ASRFinalRaising(t, c, u, where)
  \/ \E t \in TurnSlots, o \in {"ok", "throw"} : ExternalReturns(t, o)
  \/ \E rule \in CustomRules : addPolicyOverride(rule)

SpecFault == Init /\ [][NextFault]_vars

(* The webhook server taking a call of a caller who books a table, its     *)
(* events delivered one after the other.                                   *)
NextBooking ==
  \/ \E c \in OneCall, g \in Greetings : CallStarted(c, g)
  \/ \E t \in TurnSlots, c \in OneCall, u \in BookingUtterances :
       NoneAwaiting /\ nturns < MaxBookingTurns /\ ASRFinal(t, c, u)
  \/ \E t \in TurnSlots, o \in {"ok", "throw"} : ExternalReturns(t, o)
  \/ \E c \in OneCall : NoneAwaiting /\ CallEnded(c)

SpecBooking == Init /\ [][NextBooking]_vars

(* The booking agent taking the turns of a call whose session holds a      *)
(* recorded reservation, with turns delivered while earlier ones are       *)
(* still suspended at createReservation.                                   *)
NextCompletion ==
  \/ \E c \in OneCall, g \in Greetings : CallStarted(c, g)
  \/ \E t \in TurnSlots, c \in OneCall, u \in CompletionUtterances :
       nturns < MaxCompletionTurns /\ ASRFinal(t, c, u)
  \/ \E c \in OneCall : RecordReservation(c)
  \/ \E t \in TurnSlots, o \in {"ok", "throw"} : ExternalReturns(t, o)

SpecCompletion == Init /\ [][NextCompletion]_vars

(* The webhook server taking calls to numbers with and without a business, *)
(* its events delivered one after the other.                               *)
NextCalls ==
  \/ \E c \in OneCall, g \in Greetings : CallStarted(c, g)
  \/ \E c \in OneCall : CallStartedUnassigned(c)
  \/ \E t \in TurnSlots, c \in OneCall, u \in CompletionUtterances :
       nturns < MaxCompletionTurns /\ ASRFinal(t, c, u)
  \/ \E c \in OneCall : CallEnded(c)

SpecCalls == Init /\ [][NextCalls]_vars

(* The webhook server and the session store: overlapping turns of a call,  *)
(* the call ended, its session deleted or swept while turns are suspended. *)
NextStore ==
  \/ \E c \in OneCall, g \in Greetings : CallStarted(c, g)
  \/ \E t \in TurnSlots, c \in OneCall, u \in LeadUtterances :
       nturns < MaxStoreTurns /\ ASRFinal(t, c, u)
  \/ \E t \in TurnSlots, o \in {"ok", "throw"} : ExternalReturns(t, o)
  \/ \E c \in OneCall : CallEnded(c)
  \/ \E c \in OneCall : delete(c)

SpecStore == Init /\ [][NextStore]_vars

(* The webhook with call.started delivered again for a callId that has a   *)
(* session already (a retried or duplicated event): handleCallStarted      *)
(* does not look the callId up before it calls create.                     *)
NextRestart ==
  \/ \E c \in OneCall, g \in Greetings :
       ncalls < MaxRestarts /\ handleCallStarted(c, g)
  \/ \E t \in TurnSlots, c \in OneCall, u \in LeadUtterances :
       nturns < MaxRestartTurns /\ ASRFinal(t, c, u)
  \/ \E t \in TurnSlots, o \in {"ok", "throw"} : ExternalReturns(t, o)
  \/ \E c \in OneCall : CallEnded(c)

SpecRestart == Init /\ [][NextRestart]_vars

(* Two calls at once. The external call of a turn of the first call may    *)
(* never return; those of the other call's turns return (the HTTP request  *)
(* is answered or fails), and the event loop then runs the rest of the     *)
(* handler, which is what the fairness condition says.                     *)
StalledCall == TheCalls[1]

ReturnsToOthers(t) ==
  /\ turns[t].callId # StalledCall
  /\ \E o \in {"ok", "throw"} : ExternalReturns(t, o)

NextStall ==
  \/ \E c \in CallIds, g \in {"Hello! Thanks for calling. How can I help you today?"} :
       get(Store, c) = 0 /\ ncalls < Len(TheCalls) /\ handleCallStarted(c, g)
  \/ \E t \in TurnSlots, c \in CallIds, u \in LeadUtterances :
       nturns < MaxStallTurns /\ ASRFinal(t, c, u)
  \/ \E t \in TurnSlots, o \in {"ok", "throw"} : ExternalReturns(t, o)

SpecStall ==
  Init /\ [][NextStall]_vars /\ \A t \in TurnSlots : WF_vars(ReturnsToOthers(t))

(* The webhook endpoint with every request body, event or not. *)
NextWebhook ==
  \/ \E t \in TurnSlots, ev \in Events :
       nturns < MaxWebhookTurns /\ handleVapiWebhook(t, ev)
  \/ \E t \in TurnSlots, o \in {"ok", "throw"} : ExternalReturns(t, o)

SpecWebhook == Init /\ [][NextWebhook]_vars

(* A call about the menu: the caller's turns come one after the other.     *)
NextMenu ==
  \/ \E c \in OneCall, g \in Greetings : CallStarted(c, g)
  \/ \E t \in TurnSlots, c \in OneCall, u \in MenuUtterances :
       nturns < MaxMenuTurns /\ NoneAwaiting /\ ASRFinal(t, c, u)
  \/ \E c \in OneCall : CallEnded(c)

SpecMenu == Init /\ [][NextMenu]_vars

(* The router called with the stored session while time passes: webhook   *)
(* turns, and switchIntent on the session get returns.                     *)
NextClock ==
  \/ \E c \in OneCall, g \in Greetings : CallStarted(c, g)
  \/ \E t \in TurnSlots, c \in OneCall, u \in ClockUtterances :
       NoneAwaiting /\ nturns < MaxClockTurns /\ ASRFinal(t, c, u)
  \/ \E t \in TurnSlots, c \in OneCall, i \in Intents, u \in ClockUtterances :
       NoneAwaiting /\ nturns < MaxClockTurns /\ switchIntent(t, c, i, u)
  \/ \E t \in TurnSlots, o \in {"ok", "throw"} : ExternalReturns(t, o)
  \/ Tick

SpecClock == Init /\ [][NextClock]_vars

(* The store under the clock: calls start and end, turns touch the         *)
(* session, time passes and the periodic sweep runs.                       *)
NextSweep ==
  \/ \E c \in OneCall, g \in Greetings : CallStarted(c, g)
  \/ \E t \in TurnSlots, c \in OneCall, u \in LeadUtterances :
       nturns < MaxSweepTurns /\ NoneAwaiting /\ ASRFinal(t, c, u)
  \/ \E t \in TurnSlots, o \in {"ok", "throw"} : ExternalReturns(t, o)
  \/ \E c \in OneCall : CallEnded(c)
  \/ Tick
  \/ cleanup

SpecSweep == Init /\ [][NextSweep]_vars

----------------------------------------------------------------------------
(* Properties of the CRM actions *)

CRMTypes == {"hubspot_contact", "airtable_reservation", "hubspot_deal"}

crmActions(c) == IF sessions[c] = 0 THEN << >> ELSE heap[sessions[c]].crmActions

WithStatus(c, type, status) ==
  { i \in 1..Len(crmActions(c)) :
      crmActions(c)[i].type = type /\ crmActions(c)[i].status = status }

AtMostOneSuccess ==
  \A c \in CallIds : \A type \in CRMTypes :
    Cardinality(WithStatus(c, type, "success")) <= 1

(* C1: when the turns of a call are processed one after the other, the     *)
(* same utterance possibly delivered more than once, a session never holds *)
(* two successful CRM actions of the same type.                            *)
C1_SerialAtMostOneSuccess == AtMostOneSuccess

(* C1 witness: an earlier attempt did not succeed, a later one did, and    *)
(* the lead turn delivered after that made no further attempt.             *)
C1_Witness ==
  \E c \in CallIds :
    /\ Cardinality(WithStatus(c, "hubspot_contact", "success")) = 1
    /\ Len(crmActions(c)) >= 2
    /\ turns[1].pc = "done" /\ turns[1].agent = "lead" /\ turns[1].key = 0

(* C2: when two turns of one call are both in the completion branch at    *)
(* the same time, at most one CRM action of the type ends up successful.   *)
C2_ConcurrentAtMostOneSuccess ==
  (\E t \in TurnSlots : t > 1 /\ turns[t].pc # "idle") => AtMostOneSuccess

StatusOf(actions, key) ==
  { actions[i].status : i \in { j \in 1..Len(actions) : actions[j].idempotencyKey = key } }

(* C3: in every step, whatever the interleaving of turns, the status of a  *)
(* CRM action either stays as it is or goes from pending to success or to  *)
(* failed; success and failed are never left.                              *)
C3_StatusOnlyLeavesPending ==
  [][\A c \in CallIds : \A key \in 1..(MaxTurns + 1) :
       \A old \in StatusOf(crmActions(c), key) : \A new \in StatusOf(crmActions(c)', key) :
         new = old \/ (old = "pending" /\ new \in {"success", "failed"})]_vars

(* C4: once the completion attempt that created a CRM action is over, the  *)
(* action is no longer pending: every pending action belongs to a turn     *)
(* that is still waiting for its external call.                            *)
C4_NoPendingAfterAttempt ==
  \A c \in CallIds : \A i \in 1..Len(crmActions(c)) :
    crmActions(c)[i].status = "pending"
      => \E t \in TurnSlots : Awaiting(t) /\ turns[t].key = crmActions(c)[i].idempotencyKey

OfType(actions, type) == { i \in 1..Len(actions) : actions[i].type = type }

(* C5: once a session holds a failed CRM action, no later step creates     *)
(* another action of that type or calls the external capability again,     *)
(* and the failed action stays failed.                                     *)
C5_NoRetryAfterFailure ==
  [][\A c \in CallIds : \A type \in CRMTypes :
       WithStatus(c, type, "failed") # {}
         => /\ Cardinality(OfType(crmActions(c)', type)) = Cardinality(OfType(crmActions(c), type))
            /\ \A t \in TurnSlots : Awaiting(t)' => Awaiting(t)
            /\ \A i \in WithStatus(c, type, "failed") :
                 i <= Len(crmActions(c)') /\ crmActions(c)'[i].status = "failed"]_vars

----------------------------------------------------------------------------
(* Properties of the routing *)

Session(c) == heap[sessions[c]]

(* C6: every turn that is routed to an agent is routed to the agent the    *)
(* call's first routed turn chose (or the last switchIntent named).        *)
C6_IntentSticks ==
  \A t \in TurnSlots :
    turns[t].pc = "done" /\ turns[t].agent # None
      => turns[t].agent = chosen[turns[t].callId]

(* C7: after an asr.final turn that detected an intent for a session with  *)
(* none, the session in the store has that intent as its currentIntent.    *)
C7_DetectedIntentPersisted ==
  \A t \in TurnSlots :
    /\ turns[t].pc = "done" /\ turns[t].viaWebhook
    /\ turns[t].detected \in Intents
    /\ sessions[turns[t].callId] # 0
    => Session(turns[t].callId).currentIntent = turns[t].detected

----------------------------------------------------------------------------
(* Properties of the policy overrides, stated of the step that is a turn:  *)
(* slot t takes a turn in a step when the step delivers a turn and t is    *)
(* the free slot, and the turn has a session when the store holds one.     *)

TakesTurn(t, c, u) ==
  /\ nturns' = nturns + 1
  /\ FreeSlot(t)
  /\ turns'[t].callId = c
  /\ turns'[t].userInput = u
  /\ sessions[c] # 0

Responds(k, c, u) ==
  /\ Matches(POLICY_OVERRIDES[k], u)
  /\ Handler(POLICY_OVERRIDES[k], Session(c), u).kind = "response"
  /\ Handler(POLICY_OVERRIDES[k], Session(c), u).text # << >>

AnsweredBy(k, c, u, turn) ==
  /\ turn.override
  /\ turn.response = turn.ack \o Handler(POLICY_OVERRIDES[k], Session(c), u).text

(* C8: when two rules match a turn's input and the one of strictly higher  *)
(* priority gives a non-empty response, the turn is answered by a rule of  *)
(* at least that priority, wherever the rules stand in the table.          *)
C8_HigherPriorityWins ==
  [][\A t \in TurnSlots, c \in CallIds, u \in Utterances : TakesTurn(t, c, u) =>
       \A i, j \in 1..Len(POLICY_OVERRIDES) :
         /\ Responds(i, c, u)
         /\ Matches(POLICY_OVERRIDES[j], u)
         /\ POLICY_OVERRIDES[i].priority > POLICY_OVERRIDES[j].priority
         => \E k \in 1..Len(POLICY_OVERRIDES) :
              /\ Responds(k, c, u)
              /\ POLICY_OVERRIDES[k].priority >= POLICY_OVERRIDES[i].priority
              /\ AnsweredBy(k, c, u, turns'[t])]_vars

(* C8 witness: a rule added at run time, standing last in the table, has   *)
(* answered a turn that a built-in rule of lower priority matches too.     *)
C8_Witness ==
  \E t \in TurnSlots : \E j \in (Len(BuiltinOverrides) + 1)..Len(POLICY_OVERRIDES) :
    /\ turns[t].pc = "done" /\ turns[t].override /\ turns[t].rules >= j
    /\ Matches(POLICY_OVERRIDES[j], turns[t].userInput)
    /\ turns[t].response = turns[t].ack \o <<"custom response">>
    /\ \E i \in 1..Len(BuiltinOverrides) :
         /\ Matches(POLICY_OVERRIDES[i], turns[t].userInput)
         /\ POLICY_OVERRIDES[i].priority < POLICY_OVERRIDES[j].priority

(* C9: a turn answered by an override returns the handler's response as    *)
(* it is and leaves the session's currentIntent (beyond what switchIntent  *)
(* itself assigned), collected data and CRM actions as they were.          *)
C9_OverrideFrame ==
  [][\A t \in TurnSlots, c \in CallIds, u \in Utterances : TakesTurn(t, c, u) /\ turns'[t].override =>
       /\ \E k \in 1..Len(POLICY_OVERRIDES) :
            /\ Responds(k, c, u)
            /\ AnsweredBy(k, c, u, turns'[t])
       /\ Session(c)'.currentIntent =
            IF turns'[t].viaWebhook THEN Session(c).currentIntent
            ELSE chosen'[c]
       /\ Session(c)'.collected = Session(c).collected
       /\ Session(c)'.crmActions = Session(c).crmActions
       /\ ~Awaiting(t)']_vars

(* C9 witness: an override has answered a turn of a session that had       *)
(* collected data before the turn.                                         *)
C9_Witness ==
  \E t \in TurnSlots :
    /\ turns[t].pc = "done" /\ turns[t].override
    /\ sessions[turns[t].callId] # 0
    /\ Session(turns[t].callId).collected # EmptyCollected

ThrowsAt(k, c, u) ==
  /\ Matches(POLICY_OVERRIDES[k], u)
  /\ Handler(POLICY_OVERRIDES[k], Session(c), u).kind = "throw"

(* The first rule, in priority order and then table order, to respond. *)
FirstResponder(k, c, u) ==
  /\ Responds(k, c, u)
  /\ \A m \in 1..Len(POLICY_OVERRIDES) :
       Responds(m, c, u) =>
         \/ POLICY_OVERRIDES[m].priority < POLICY_OVERRIDES[k].priority
         \/ POLICY_OVERRIDES[m].priority = POLICY_OVERRIDES[k].priority /\ m >= k

(* C10: when the handler of a matching rule throws, the turn is answered   *)
(* by the next matching rule in priority order that responds, and when     *)
(* there is none the turn is not overridden and goes to an agent.          *)
C10_ThrowingHandlerSkipped ==
  [][\A t \in TurnSlots, c \in CallIds, u \in Utterances :
       /\ TakesTurn(t, c, u)
       /\ \E k \in 1..Len(POLICY_OVERRIDES) :
            ThrowsAt(k, c, u)
       => /\ \A k \in 1..Len(POLICY_OVERRIDES) :
               FirstResponder(k, c, u)
                 => AnsweredBy(k, c, u, turns'[t])
          /\ (\A k \in 1..Len(POLICY_OVERRIDES) :
                ~Responds(k, c, u))
               => ~turns'[t].override /\ turns'[t].agent # None]_vars

(* C10 witness: a turn matched a run-time rule of the highest priority     *)
(* whose handler throws, and was answered by the built-in repeat rule.     *)
C10_Witness ==
  \E t \in TurnSlots : \E j \in (Len(BuiltinOverrides) + 1)..Len(POLICY_OVERRIDES) :
    /\ turns[t].pc = "done" /\ turns[t].override /\ turns[t].rules >= j
    /\ POLICY_OVERRIDES[j].handler = "custom throws"
    /\ POLICY_OVERRIDES[j].priority = 10
    /\ Matches(POLICY_OVERRIDES[j], turns[t].userInput)
    /\ turns[t].response[1] \in {"Sure, let me repeat that.", "Of course! Let me repeat that."}

----------------------------------------------------------------------------
(* Properties of the router boundary *)

(* A text is the concatenation of its fragments. *)
NonEmpty(text) == \E i \in 1..Len(text) : text[i] # ""

(* The external call of turn t threw: the action of its key did not become *)
(* successful when the turn resumed.                                       *)
CapabilityThrew(t) ==
  /\ Awaiting(t) /\ ~Awaiting(t)'
  /\ "success" \notin StatusOf(crmActions(turns[t].callId)', turns[t].key)

(* C11, as stated: every turn in which an exception is raised, the         *)
(* completion branch's external call included, returns the apology text.   *)
C11_EveryExceptionGivesApology ==
  [][\A t \in TurnSlots :
       (CapabilityThrew(t) \/ (turns'[t].raised # None /\ turns[t] # turns'[t]))
         => turns'[t].response = Apology]_vars

(* C11, amended: every turn returns a non-empty response; an exception     *)
(* raised by the agent gives the apology text; an exception of the         *)
(* external call in the completion branch does not, the agent's own        *)
(* response is returned.                                                   *)
C11_NeverThrowsApologyAtBoundary ==
  [][\A t \in TurnSlots :
       /\ (turns'[t] # turns[t] /\ turns'[t].pc = "done" /\ sessions[turns'[t].callId] # 0)
            => NonEmpty(turns'[t].response)
       /\ (turns'[t] # turns[t] /\ turns'[t].raised # None)
            => turns'[t].response = Apology
       /\ CapabilityThrew(t) => turns'[t].response # Apology]_vars

(* C11 witness: an agent raised an exception after its extraction had      *)
(* changed the collected data, and the turn returned the apology.          *)
C11_Witness ==
  \E t \in TurnSlots :
    /\ turns[t].pc = "done" /\ turns[t].raised = "after"
    /\ turns[t].response = Apology
    /\ Session(turns[t].callId).collected # EmptyCollected

----------------------------------------------------------------------------
(* Properties of the intent detection *)

(* C12: a turn that detects an intent detects booking or menu only when    *)
(* that intent's combined score is strictly greater than the scores of     *)
(* both other intents, and lead whenever the highest score is shared or    *)
(* all scores are zero.                                                    *)
C12_StrictlyHighestOrLead ==
  [][\A t \in TurnSlots, c \in CallIds, u \in BookingUtterances :
       TakesTurn(t, c, u) /\ turns'[t].detected # None
         => LET f == FinalScores(Session(c), u)
            IN turns'[t].detected =
                 IF f.booking > f.menu /\ f.booking > f.lead THEN "booking"
                 ELSE IF f.menu > f.booking /\ f.menu > f.lead THEN "menu"
                 ELSE "lead"]_vars

----------------------------------------------------------------------------
(* Properties of the collected data *)

Collected(c) == Session(c).collected

(* The session of call c is the one call.started created: no step of an    *)
(* event other than call.started makes a new one.                          *)
SameCall(c) == sessions[c] # 0 /\ sessions'[c] # 0 /\ ncalls' = ncalls

(* C13: once a required slot (name, email, partySize, dateTime) holds a    *)
(* value in the stored session, no later turn leaves it unset.             *)
C13_RequiredSlotsStaySet ==
  [][\A c \in CallIds :
       SameCall(c) =>
         /\ Collected(c).name # None => Collected(c)'.name # None
         /\ Collected(c).email # None => Collected(c)'.email # None
         /\ Collected(c).partySize # 0 => Collected(c)'.partySize # 0
         /\ Collected(c).dateTime # None => Collected(c)'.dateTime # None]_vars

(* C13 witness: the booking agent has taken a turn that captures nothing   *)
(* for a session whose required slots earlier turns had filled, and they   *)
(* are still filled.                                                       *)
C13_Witness ==
  \E t \in TurnSlots :
    /\ turns[t].pc = "done" /\ turns[t].agent = "booking"
    /\ turns[t].userInput = "Yes that is correct"
    /\ hasRequiredData(Session(turns[t].callId), "booking")

(* C14: a slot of the collected data (required or optional) that holds a   *)
(* value when an agent's respond is called holds the same value when it    *)
(* returns.                                                                *)
C14_FilledSlotsUnchanged ==
  [][\A c \in CallIds :
       SameCall(c) =>
         /\ Collected(c).name # None => Collected(c)'.name = Collected(c).name
         /\ Collected(c).email # None => Collected(c)'.email = Collected(c).email
         /\ Collected(c).phone # None => Collected(c)'.phone = Collected(c).phone
         /\ Collected(c).partySize # 0 => Collected(c)'.partySize = Collected(c).partySize
         /\ Collected(c).dateTime # None => Collected(c)'.dateTime = Collected(c).dateTime
         /\ Collected(c).useCase # None => Collected(c)'.useCase = Collected(c).useCase
         /\ Collected(c).specialRequests # None
              => Collected(c)'.specialRequests = Collected(c).specialRequests]_vars

----------------------------------------------------------------------------
(* Properties of the booking completion *)

SlotAvailable(c) ==
  isTimeSlotAvailable(remainingSlots, Collected(c).dateTime, Collected(c).partySize)

(* C15: once booking turns have supplied name, partySize and dateTime for  *)
(* an available slot, a booking turn in which the caller confirms runs the *)
(* completion branch: when the turn has been answered the session has an   *)
(* airtable_reservation action.                                            *)
C15_ConfirmationCompletesBooking ==
  \A t \in TurnSlots :
    /\ turns[t].pc = "done" /\ turns[t].agent = "booking"
    /\ isConfirmation(turns[t].userInput)
    /\ sessions[turns[t].callId] # 0
    /\ hasRequiredData(Session(turns[t].callId), "booking")
    /\ SlotAvailable(turns[t].callId)
    => OfType(crmActions(turns[t].callId), "airtable_reservation") # {}

(* The airtable_reservation actions of call c that finalizeReservation     *)
(* made, and those of them that hold a place of the slot.                  *)
Finalized(c) ==
  { i \in OfType(crmActions(c), "airtable_reservation") :
      crmActions(c)[i].result # "recorded reservation" }

Reserving(c) == { i \in Finalized(c) : crmActions(c)[i].status # "failed" }

NoLongerAvailable == <<"I'm sorry, but that time slot is no longer available.">>

(* C16: of the booking completions that run for a slot, concurrently or    *)
(* not, one reserves for each place the slot has left: a completion that   *)
(* finds a place takes it and goes on to createReservation, its action     *)
(* becoming success when the call returns; one that finds no place gets    *)
(* the slot-no-longer-available response and its action is failed.  With   *)
(* one place left, exactly one of two completions reserves.  (The action   *)
(* of a suspended completion is in the stored session unless a new         *)
(* call.started has made a new session for the callId.)                    *)
C16_OneCompletionPerPlace ==
  [][\A c \in CallIds :
       /\ Cardinality(Reserving(c))' + remainingSlots' <= InitSlots
       /\ \A t \in TurnSlots, u \in CompletionUtterances :
            TakesTurn(t, c, u) /\ Finalized(c)' # Finalized(c)
              => IF SlotAvailable(c)
                 THEN /\ remainingSlots' = remainingSlots - 1
                      /\ turns'[t].pc = "await" /\ turns'[t].await = "airtable"
                      /\ StatusOf(crmActions(c)', turns'[t].key) = {"pending"}
                 ELSE /\ remainingSlots' = remainingSlots
                      /\ turns'[t].pc = "done" /\ turns'[t].response = NoLongerAvailable
                      /\ StatusOf(crmActions(c)', nextKey) = {"failed"}
       /\ \A t \in TurnSlots :
            Awaiting(t) /\ turns[t].await = "airtable" /\ turns[t].callId = c
              => /\ StatusOf(crmActions(c), turns[t].key) \subseteq {"pending"}
                 /\ StatusOf(crmActions(c)', turns[t].key) \subseteq {"pending", "success"}
                 /\ /\ ~Awaiting(t)'
                    /\ StatusOf(crmActions(c), turns[t].key) # {}
                    /\ turns'[t].response # turns[t].ack \o
                        <<"I apologize, but I'm having trouble finalizing your reservation.">>
                    => StatusOf(crmActions(c)', turns[t].key) = {"success"}]_vars

(* C16 witness: two completions ran concurrently for a slot with one place *)
(* left; the first holds it and is still at createReservation, the second  *)
(* has been told the slot is no longer available and its action is failed. *)
C16_Witness ==
  \E t1, t2 \in TurnSlots :
    /\ turns[t1].pc = "await" /\ turns[t1].await = "airtable"
    /\ turns[t2].pc = "done" /\ turns[t2].callId = turns[t1].callId
    /\ turns[t2].response = NoLongerAvailable
    /\ remainingSlots = 0
    /\ Cardinality(Reserving(turns[t1].callId)) = 1
    /\ Cardinality(Finalized(turns[t1].callId)) = 2

----------------------------------------------------------------------------
(* Properties of the lead completion *)

Terminal(c, type) ==
  { i \in OfType(crmActions(c), type) : crmActions(c)[i].status \in {"success", "failed"} }

(* C17: a lead turn that fills the last missing required slot (name and    *)
(* email are both present after it, and were not before) runs the          *)
(* completion branch as part of the same turn: the turn goes on to the     *)
(* HubSpot upsert, or has finished with exactly one hubspot_contact        *)
(* action in the session, of status success or failed.                     *)
C17_FillingTurnCompletes ==
  [][\A t \in TurnSlots, c \in CallIds, u \in Utterances :
       /\ TakesTurn(t, c, u) /\ turns'[t].agent = "lead"
       /\ ~hasRequiredData(Session(c), "lead")
       /\ hasRequiredData(Session(c)', "lead")
       => \/ turns'[t].pc = "await" /\ turns'[t].await = "hubspot"
          \/ /\ Cardinality(OfType(crmActions(c)', "hubspot_contact")) = 1
             /\ Terminal(c, "hubspot_contact")' = OfType(crmActions(c)', "hubspot_contact")]_vars

ActionType(agent) ==
  IF agent = "lead" THEN "hubspot_contact" ELSE "airtable_reservation"

----------------------------------------------------------------------------
(* Properties of the session store *)

(* C19: once a call.started event has been processed, get(callId) returns  *)
(* a session for the call (so that the asr.final events of the call find   *)
(* one).                                                                   *)
C19_StartedCallHasSession ==
  ncalls > 0 => \E c \in CallIds : get(Store, c) # 0

(* C20: a callId the map has no session for gets one only from             *)
(* call.started: after a delete or a sweep, no step of a turn still in     *)
(* flight and no store mutation makes get(callId) return a session again,  *)
(* and each mutation leaves the store as it is (it returns undefined).     *)
C20_NoResurrection ==
  [][\A c \in CallIds :
       /\ get(Store, c) = 0 /\ ncalls' = ncalls => get(Store, c)' = 0
       /\ get(Store, c)' = 0 =>
            /\ update(Store, c, [isActive |-> TRUE])' = Store'
            /\ updateCollected(Store, c, [name |-> "Test User"])' = Store'
            /\ addTranscript(Store, c, [who |-> "agent", text |-> Apology])' = Store'
            /\ addCRMAction(Store, c, CRMAction("hubspot_contact", nextKey))' = Store'
            /\ \A key \in 1..nextKey :
                 updateCRMAction(Store, c, key, [status |-> "success"])' = Store'
            /\ deactivate(Store, c)' = Store']_vars

(* C20 witness: the session of a call was deleted or swept while a turn    *)
(* of the call was suspended at its external call, and the turn has run    *)
(* to its end since.                                                       *)
C20_Witness ==
  \E t \in TurnSlots :
    /\ turns[t].pc = "done" /\ turns[t].key # 0
    /\ get(Store, turns[t].callId) = 0

(* C21: the sweep deletes a session only if it is inactive and its         *)
(* lastActivity is more than the retention window (24 hours) in the past:  *)
(* a session that is in the store before a step of the sweep specification *)
(* and gone after it was inactive with lastActivity < now - Retention.     *)
(* (A repeated call.started replaces the session, it does not delete it.)  *)
C21_SweepDeletesOnlyExpired ==
  [][\A c \in CallIds :
       (get(Store, c) # 0 /\ get(Store, c)' = 0)
         => /\ ~Session(c).isActive
            /\ Session(c).lastActivity + Retention < now]_vars

(* C21 witness: the sweep has deleted a session (nothing else of this      *)
(* specification deletes) after the clock passed the retention window.     *)
C21_Witness ==
  \E c \in CallIds : ncalls > 0 /\ get(Store, c) = 0 /\ now > Retention

(* C21 witness of the spared case: an inactive session whose lastActivity  *)
(* is within the window is in the store at a time the sweep can delete.    *)
C21_RecentSpared ==
  \E c \in CallIds :
    /\ get(Store, c) # 0 /\ ~Session(c).isActive
    /\ now > Retention /\ Session(c).lastActivity + Retention >= now

(* C22: once isActive is false it is never true again for that callId: no  *)
(* step (turn, store update, repeated call.started or call.ended) takes    *)
(* the session of a callId from inactive to active.                        *)
C22_NeverReactivated ==
  [][\A c \in CallIds :
       (get(Store, c) # 0 /\ ~Session(c).isActive /\ get(Store, c)' # 0)
         => ~Session(c).isActive']_vars

IsPrefix(a, b) == Len(a) <= Len(b) /\ SubSeq(b, 1, Len(a)) = a

(* C23: the transcript of a session is append-only under every sequence    *)
(* and interleaving of turns: in every step that leaves the call its       *)
(* session, the transcript before the step is a prefix of the transcript   *)
(* after it.                                                               *)
C23_TranscriptAppendOnly ==
  [][\A c \in CallIds :
       SameCall(c) => IsPrefix(Session(c).transcript, Session(c).transcript')]_vars

(* C23 witness: two turns of a call overlapped (one was suspended at its   *)
(* external call while the other ran) and the transcript ends with the     *)
(* responses of both, the suspended turn's last.                           *)
C23_Witness ==
  \E c \in CallIds, t, t2 \in TurnSlots :
    /\ t # t2 /\ sessions[c] # 0
    /\ turns[t].pc = "done" /\ turns[t].callId = c /\ turns[t].key # 0
    /\ turns[t2].pc = "done" /\ turns[t2].callId = c
    /\ LET tr == Session(c).transcript
       IN /\ Len(tr) >= 5
          /\ tr[Len(tr)] = [who |-> "agent", text |-> turns[t].response]
          /\ tr[Len(tr) - 1] = [who |-> "agent", text |-> turns[t2].response]
          /\ tr[Len(tr) - 2].who = "caller"
          /\ tr[Len(tr) - 3].who = "caller"

(* C24: the crmActions of a session are append-only under every sequence   *)
(* and interleaving of turns: in every step that leaves the call its       *)
(* session no action is removed or moved (each position keeps its type     *)
(* and idempotency key; only the action's status, result and error are     *)
(* updated), so an action one turn appended stays when another turn        *)
(* appends or updates an action.                                           *)
C24_ActionsAppendOnly ==
  [][\A c \in CallIds :
       SameCall(c) =>
         /\ Len(crmActions(c)) <= Len(crmActions(c)')
         /\ \A i \in 1..Len(crmActions(c)) :
              /\ crmActions(c)'[i].type = crmActions(c)[i].type
              /\ crmActions(c)'[i].idempotencyKey = crmActions(c)[i].idempotencyKey]_vars

(* C24 witness: two overlapping turns of a call each appended an action    *)
(* and each updated its own after the external call; both actions are in   *)
(* the session, in the order they were appended.                           *)
C24_Witness ==
  \E c \in CallIds, t, t2 \in TurnSlots :
    /\ t # t2 /\ sessions[c] # 0
    /\ turns[t].pc = "done" /\ turns[t].callId = c /\ turns[t].key # 0
    /\ turns[t2].pc = "done" /\ turns[t2].callId = c /\ turns[t2].key > turns[t].key
    /\ Len(crmActions(c)) = 2
    /\ crmActions(c)[1].idempotencyKey = turns[t].key
    /\ crmActions(c)[2].idempotencyKey = turns[t2].key
    /\ crmActions(c)[1].status # "pending"
    /\ crmActions(c)[2].status # "pending"

(* C25: for every session createdAt <= lastActivity, lastActivity never    *)
(* decreases, and every change of the stored session's state (the router   *)
(* setting currentIntent or lastIntent included) updates lastActivity to   *)
(* the time of the change.                                                 *)
C25_EveryChangeTouchesLastActivity ==
  [][\A c \in CallIds :
       /\ get(Store, c)' # 0 => Session(c).createdAt' <= Session(c).lastActivity'
       /\ (get(Store, c) # 0 /\ get(Store, c)' # 0)
            => /\ Session(c).lastActivity <= Session(c).lastActivity'
               /\ Session(c)' # Session(c) => Session(c).lastActivity' = now']_vars

(* The updates the agents pass to updateCRMAction. *)
StatusUpdates ==
  { [status |-> "success", result |-> "contact"],
    [status |-> "failed", error |-> "Unknown error"] }

(* C26: updateCRMAction with an idempotency key that no action of the      *)
(* stored session has is a no-op: in every reachable state, for every key  *)
(* handed out so far that matches no action of a call's session, the       *)
(* store after the update is the store before it (same actions, same       *)
(* statuses, same other fields of every session).                          *)
C26_UnmatchedKeyIsNoOp ==
  \A c \in CallIds, key \in 1..nextKey, updates \in StatusUpdates :
    (get(Store, c) # 0 /\ ~KeyUsed(Store, c, key))
      => updateCRMAction(Store, c, key, updates) = Store

(* C26 witness: a turn was suspended at its external call with the key of  *)
(* the action it had appended, a repeated call.started replaced the        *)
(* session meanwhile, and the turn has resumed and called updateCRMAction  *)
(* with its key on the new session, which has no action with that key.     *)
C26_Witness ==
  \E t \in TurnSlots :
    /\ turns[t].pc = "done" /\ turns[t].key # 0
    /\ get(Store, turns[t].callId) # 0
    /\ ~KeyUsed(Store, turns[t].callId, turns[t].key)

(* The Menu agent stated the specials in the call's last turn and stored   *)
(* their list in lastMenuRead.                                             *)
SpecialsStated(c) ==
  /\ sessions[c] # 0
  /\ Session(c).lastMenuRead = menuDescriptions(getTodaysSpecials)
  /\ \E t \in TurnSlots :
       /\ turns[t].pc = "done" /\ turns[t].callId = c /\ turns[t].agent = "menu"
       /\ analyzeMenuRequest(turns[t].userInput).type = "specials"

RepeatOverride ==
  POLICY_OVERRIDES[CHOOSE k \in 1..Len(POLICY_OVERRIDES) :
                     POLICY_OVERRIDES[k].description = "Handle repeat requests"]

(* The turn after the specials matches the repeat trigger: that of the     *)
(* override, or that of the Menu agent in a turn the agent handles.        *)
RepeatAsked(t, c, u) ==
  /\ TakesTurn(t, c, u)
  /\ SpecialsStated(c)
  /\ \/ Matches(RepeatOverride, u)
     \/ turns'[t].agent = "menu" /\ analyzeMenuRequest(u).type = "repeat"

RepeatAcks ==
  { <<"Of course! Let me repeat that.">>,
    <<"Of course! Here are those menu items again:">> }

(* The response is an acknowledgment and the stored list, item by item.    *)
Reproduced(t, c) ==
  \E ack \in RepeatAcks : turns'[t].response = ack \o Session(c).lastMenuRead

(* A rule of higher priority than the repeat rule matches the input too.   *)
OutranksRepeat(u) ==
  \E k \in 1..Len(POLICY_OVERRIDES) :
    /\ Matches(POLICY_OVERRIDES[k], u)
    /\ POLICY_OVERRIDES[k].priority > RepeatOverride.priority

(* C27 as stated: after a Menu turn stated the specials, every following   *)
(* turn that matches the repeat trigger gets the list stored in            *)
(* lastMenuRead as its response, whether an override or the Menu agent     *)
(* answers it.                                                             *)
C27_RepeatReproducesList ==
  [][\A t \in TurnSlots, c \in CallIds, u \in MenuUtterances :
       RepeatAsked(t, c, u) => Reproduced(t, c)]_vars

(* C27, amended: after a Menu turn stated the specials, a following turn   *)
(* that matches the repeat trigger and no override of higher priority      *)
(* than the repeat rule gets the list stored in lastMenuRead as its        *)
(* response (after a fixed acknowledgment), whether the repeat override    *)
(* or the Menu agent answers it.                                           *)
C27_RepeatReproducesListUnlessOutranked ==
  [][\A t \in TurnSlots, c \in CallIds, u \in MenuUtterances :
       (RepeatAsked(t, c, u) /\ ~OutranksRepeat(u)) => Reproduced(t, c)]_vars

(* C27 witness: after the specials the caller asked for a repeat twice,    *)
(* once in words the override catches and once in words only the Menu      *)
(* agent takes for a repeat request; the transcript has both answers,      *)
(* each with the stored list.                                              *)
C27_Witness ==
  \E c \in CallIds :
    /\ sessions[c] # 0
    /\ Session(c).lastMenuRead = menuDescriptions(getTodaysSpecials)
    /\ \A ack \in RepeatAcks :
         \E i \in 1..Len(Session(c).transcript) :
           Session(c).transcript[i] =
             [who |-> "agent", text |-> ack \o Session(c).lastMenuRead]

(* The step is switchIntent(session, i, u) on the stored session of call   *)
(* c, whose current intent is set, and the call has returned.              *)
Switches(t, c, i, u) ==
  /\ TakesTurn(t, c, u)
  /\ ~turns'[t].viaWebhook
  /\ chosen'[c] = i
  /\ Session(c).currentIntent # None
  /\ turns'[t].pc = "done"

AckPhrase(i) ==
  CASE i = "booking" -> <<"Of course, let me help you with a reservation.">>
    [] i = "menu" -> <<"Absolutely! I'd love to tell you about our menu.">>
    [] i = "lead" -> <<"Sure, I can get you that information.">>

(* The session as switchIntent hands it to the turn pipeline. *)
Switched(c, i) ==
  [Session(c) EXCEPT !.currentIntent = i, !.lastIntent = Session(c).currentIntent]

(* The response of the agent of intent i to the input. *)
AgentResponse(c, i, u) ==
  Dispatch([Store EXCEPT !.heap[sessions[c]] = Switched(c, i)],
           Switched(c, i), u, nextKey).response

C29_OtherSessionsProceed ==
  \A t \in TurnSlots :
    (Awaiting(t) /\ turns[t].callId # StalledCall)
      ~> (turns[t].pc = "done" /\ turns[t].callId # StalledCall
          /\ turns[t].response # << >>)

(* C29 witness: a turn of the first call is still suspended at its         *)
(* external call, and a turn of the other call that was suspended after it *)
(* has returned and its response is the last entry of that call's          *)
(* transcript.                                                             *)
C29_Witness ==
  \E t, t2 \in TurnSlots :
    /\ Awaiting(t) /\ turns[t].callId = StalledCall
    /\ turns[t2].pc = "done" /\ turns[t2].callId \in CallIds \ {StalledCall}
    /\ turns[t2].key > turns[t].key
    /\ sessions[turns[t2].callId] # 0
    /\ LET tr == Session(turns[t2].callId).transcript
       IN tr[Len(tr)] = [who |-> "agent", text |-> turns[t2].response]

KnownTypes == {"call.started", "call.ended", "asr.partial", "asr.final", "function.call"}

(* The event has an unknown type or lacks a field its type requires. *)
FailsValidation(ev) ==
  \/ ev.type \notin KnownTypes
  \/ ev.callId = None
  \/ ev.type \in {"call.started", "call.ended"} /\ ev.call = None
  \/ ev.type \in {"asr.partial", "asr.final"} /\ ev.transcript = None

(* C30: an inbound event that fails validation is answered with HTTP 200   *)
(* and the body {received: true, error: 'Processing failed', message}; no  *)
(* exception leaves the handler, and no session is created or changed.     *)
C30_InvalidEventAnswered200 ==
  [][\A t \in TurnSlots, ev \in Events :
       (FailsValidation(ev) /\ handleVapiWebhook(t, ev)) =>
         /\ turns'[t].http.status = 200
         /\ turns'[t].http.received
         /\ turns'[t].http.error = "Processing failed"
         /\ turns'[t].http.message # None
         /\ turns'[t].raised = None
         /\ sessions' = sessions /\ heap' = heap]_vars

(* C30 witness: a request that failed validation has been answered with    *)
(* the error body while the call has a session with caller turns in it.    *)
C30_Witness ==
  \E t \in TurnSlots, c \in CallIds :
    /\ turns[t].pc = "done"
    /\ turns[t].http = ProcessingFailed("invalid_type")
    /\ sessions[c] # 0
    /\ Len(CallerEntries(Session(c))) > 0

----------------------------------------------------------------------------
(* Properties of the next question *)

(* The questions of LeadAgent.generateResponse that ask for the name. *)
AsksName ==
  { <<"Great! And what's your name?">>,
    <<"Perfect! I'd be happy to help with that. Can I get your name first?">> }

(* The response asks for the email address. *)
AsksEmail(response) ==
  Len(response) > 0 /\ response[1] = "What's the best email address to reach you at?"

(* C31: a lead turn never asks for a required field (name, email) whose    *)
(* value the same turn has extracted and stored: if the stored session had *)
(* no name before the turn and has one after it, the turn's response is    *)
(* not a question for the name, and likewise for the email.                *)
C31_NeverAsksForJustStoredField ==
  [][\A t \in TurnSlots, c \in CallIds, u \in Utterances :
       /\ TakesTurn(t, c, u) /\ turns'[t].agent = "lead" /\ turns'[t].pc = "done"
       /\ SameCall(c)
       => /\ (Collected(c).name = None /\ Collected(c)'.name # None)
               => turns'[t].response \notin AsksName
          /\ (Collected(c).email = None /\ Collected(c)'.email # None)
               => ~AsksEmail(turns'[t].response)]_vars

(* The responses of the booking agent that ask for the name. *)
BookingAsksName ==
  { <<"Great news! I have availability. What name should I put this reservation under?">>,
    <<"Excellent! What name should I put this reservation under?">> }

(* C32: a booking turn does not ask for the name when the stored session   *)
(* already held a name as the turn began, and once name, partySize and     *)
(* dateTime are all collected (and no reservation is recorded yet) the     *)
(* turn answers with the confirmation prompt.                              *)
C32_BookingConfirmsWhenComplete ==
  [][\A t \in TurnSlots, c \in CallIds, u \in BookingUtterances :
       /\ TakesTurn(t, c, u) /\ turns'[t].agent = "booking" /\ turns'[t].pc = "done"
       /\ ~hasConfirmedReservation(Session(c))
       => /\ Collected(c).name # None => turns'[t].response \notin BookingAsksName
          /\ hasRequiredData(Session(c), "booking")
               => turns'[t].response =
                    <<"Perfect! Let me confirm your reservation. Is that correct?",
                      Collected(c).name, Collected(c).dateTime>>]_vars

----------------------------------------------------------------------------
(* Properties of the CRM outcome *)

(* C33: a CRM action has status success only if the capability created or *)
(* updated a record and returned its id: no action of a stored session is  *)
(* a success whose result is the `not configured' value.                   *)
C33_SuccessOnlyWithRecord ==
  \A c \in CallIds :
    sessions[c] # 0 =>
      \A i \in 1..Len(crmActions(c)) :
        crmActions(c)[i].status = "success" => crmActions(c)[i].result # NotConfigured

----------------------------------------------------------------------------
(* Properties of the order of reservation and external call *)

(* C34: in every booking completion createReservation is called only after *)
(* reserveSlot has returned true in that attempt: a turn comes to be       *)
(* suspended at createReservation only in a step in which the slot had a   *)
(* place and that place was taken, and an attempt that finds no place ends *)
(* without the external call and leaves the availability as it was.        *)
C34_CreateOnlyAfterReserve ==
  [][\A t \in TurnSlots, c \in CallIds :
       /\ ( /\ ~(Awaiting(t) /\ turns[t].await = "airtable")
            /\ turns'[t].pc = "await" /\ turns'[t].await = "airtable"
            /\ turns'[t].callId = c )
            => /\ sessions[c] # 0
               /\ SlotAvailable(c)
               /\ remainingSlots' = remainingSlots - 1
       /\ \A u \in CompletionUtterances :
            TakesTurn(t, c, u) /\ Finalized(c)' # Finalized(c) /\ ~SlotAvailable(c)
              => /\ turns'[t].pc = "done"
                 /\ remainingSlots' = remainingSlots]_vars

(* C34 witness: a completion is suspended at createReservation, holding    *)
(* the place it took, after an earlier completion of the call was refused  *)
(* or, with the place now gone, a later one can only be refused.           *)
C34_Witness ==
  \E t \in TurnSlots :
    /\ Awaiting(t) /\ turns[t].await = "airtable"
    /\ remainingSlots = InitSlots - 1
    /\ StatusOf(crmActions(turns[t].callId), turns[t].key) = {"pending"}

----------------------------------------------------------------------------
(* Properties of concurrent writes to the collected data *)

(* The slots of the collected data that hold a value. *)
Stored(c) ==
  { f \in DOMAIN Collected(c) :
      IF f = "partySize" THEN Collected(c)[f] # 0 ELSE Collected(c)[f] # None }

(* The slots for which the utterance carries a value that the agent's      *)
(* extraction patterns capture.                                            *)
Carried(agent, u) ==
  LET cap == Features(u).cap
  IN CASE agent = "lead" ->
            (IF cap.leadName # None THEN {"name"} ELSE {})
            \cup (IF cap.email # None THEN {"email"} ELSE {})
            \cup (IF cap.phone # None THEN {"phone"} ELSE {})
            \cup (IF cap.useCase # None THEN {"useCase"} ELSE {})
       [] agent = "booking" ->
            (IF cap.bookingName # None THEN {"name"} ELSE {})
            \cup (IF cap.partySize # 0 THEN {"partySize"} ELSE {})
            \cup (IF cap.dateTime # None THEN {"dateTime"} ELSE {})
            \cup (IF cap.phone # None THEN {"phone"} ELSE {})
       [] OTHER -> {}

(* The agent of the turn runs its extraction (not its completion branch). *)
Extracting(agent, session) ==
  \/ agent = "lead" /\ ~hasRequiredData(session, "lead")
  \/ /\ agent = "booking"
     /\ ~(hasRequiredData(session, "booking") /\ hasConfirmedReservation(session))

(* The transcript shows a caller turn delivered while the turn before it   *)
(* had not been answered: two turns of the call were in flight at once.    *)
Overlapped(c) ==
  \E i \in 1..(Len(Session(c).transcript) - 1) :
    /\ Session(c).transcript[i].who = "caller"
    /\ Session(c).transcript[i + 1].who = "caller"

----------------------------------------------------------------------------
(* Properties of the menu list *)

(* The items a response speaks, in the order it speaks them, named as      *)
(* lastMenuRead names them.                                                *)
Spoken(response) ==
  LET Voiced(text) == \E i \in 1..Len(MenuItems) : MenuItems[i].voiced = text
      said == SelectSeq(response, Voiced)
  IN [ k \in 1..Len(said) |->
         MenuItems[CHOOSE i \in 1..Len(MenuItems) : MenuItems[i].voiced = said[k]].said ]

(* C36: whenever a menu turn changes lastMenuRead, the stored list is the  *)
(* list of the items the turn's response spoke, and a turn whose response  *)
(* speaks no item leaves lastMenuRead as it was.                           *)
C36_LastMenuReadIsWhatWasSpoken ==
  [][\A t \in TurnSlots, c \in CallIds, u \in Utterances :
       /\ TakesTurn(t, c, u) /\ turns'[t].agent = "menu" /\ turns'[t].pc = "done"
       /\ SameCall(c)
       => /\ Session(c)'.lastMenuRead # Session(c).lastMenuRead
               => Session(c)'.lastMenuRead = Spoken(turns'[t].response)
          /\ Spoken(turns'[t].response) = << >>
               => Session(c)'.lastMenuRead = Session(c).lastMenuRead]_vars

----------------------------------------------------------------------------
(* Properties of the reserved place *)

----------------------------------------------------------------------------
(* Properties of a repeated call.started *)

(* C38: a call.started event for a callId that already has a session does  *)
(* not discard what the session holds: its collected slots and its CRM     *)
(* actions are as before, and its transcript still begins with the         *)
(* entries it had.                                                         *)
C38_RestartKeepsSession ==
  [][\A c \in CallIds, g \in Greetings :
       (sessions[c] # 0 /\ handleCallStarted(c, g))
         => /\ sessions'[c] # 0
            /\ Collected(c)' = Collected(c)
            /\ crmActions(c)' = crmActions(c)
            /\ IsPrefix(Session(c).transcript, Session(c)'.transcript)]_vars

----------------------------------------------------------------------------
(* Properties of reserveSlot *)

(* C39: remainingSlots of the slot never goes below zero; every reserveSlot *)
(* call that returns true takes exactly one place and tracks exactly one   *)
(* reservation, so that (the list being empty at the start) the number of  *)
(* calls that returned true is the initial remainingSlots less what is     *)
(* left, and never exceeds the initial remainingSlots; and a call that     *)
(* returns false leaves remainingSlots and the reservation list as they    *)
(* were.                                                                   *)
C39_ReserveSlotBounded ==
  [][/\ remainingSlots' >= 0
     /\ remainingSlots' + Len(reservations') = remainingSlots + Len(reservations)
     /\ Len(reservations') \in {Len(reservations), Len(reservations) + 1}
     /\ remainingSlots' + Len(reservations') <= InitSlots
     /\ \A t \in TurnSlots, c \in CallIds, u \in CompletionUtterances :
          TakesTurn(t, c, u) /\ Finalized(c)' # Finalized(c) /\ ~SlotAvailable(c)
            => /\ remainingSlots' = remainingSlots
               /\ reservations' = reservations]_vars

(* C39 witness: the slot's last place has been reserved and tracked, and   *)
(* a later reserveSlot call for the slot has returned false.               *)
C39_Witness ==
  /\ remainingSlots = 0
  /\ Len(reservations) = InitSlots
  /\ \E t \in TurnSlots : turns[t].pc = "done" /\ turns[t].response = NoLongerAvailable


-----------------------------------------------------------------------------
(* utils/http: httpWithRetry *)

(* defaultRetryConfig *)
maxRetries == 2
baseDelay == 1000
maxDelay == 10000
jitter == TRUE

MathMin(a, b) == IF a <= b THEN a ELSE b
MathMax(a, b) == IF a >= b THEN a ELSE b

(* What client.request settles with: the response it resolves with, or the *)
(* error it rejects with; an error has a response (with its status) or     *)
(* none (network error, timeout).                                          *)
Resolved200 == [ resolved |-> TRUE, response |-> TRUE, status |-> 200 ]
Rejected(status) == [ resolved |-> FALSE, response |-> TRUE, status |-> status ]
RejectedNoResponse == [ resolved |-> FALSE, response |-> FALSE, status |-> 0 ]
ErrorStatuses == {400, 404, 429, 499, 500, 503}
Settlements ==
  {Resolved200, RejectedNoResponse} \cup { Rejected(status) : status \in ErrorStatuses }

(* calculateDelay, with Math.random() = random / RandomSteps. *)
calculateDelay(attempt, random) ==
  LET exponentialDelay == MathMin(baseDelay * 2 ^ attempt, maxDelay)
  IN IF jitter
     THEN MathMax(0, exponentialDelay
                       + ((2 * random - RandomSteps) * exponentialDelay)
                           \div (4 * RandomSteps))
     ELSE exponentialDelay

(* isRetryableError retrying every error that has a status of 400 or more. *)
isRetryableErrorFrom400(error) ==
  IF ~error.response THEN TRUE ELSE error.status >= 400

isRetryableError(error) ==
  IF ~error.response
  THEN TRUE
  ELSE error.status >= 500 \/ error.status = 429

(* httpWithRetry(client, config) with the default retryConfig, up to its   *)
(* first await: the loop is entered with attempt = 0 and the request made. *)
httpWithRetry ==
  /\ httpCall.pc = "idle"
  /\ httpCall' = IF 0 <= maxRetries
                 THEN [NoHttpCall EXCEPT !.pc = "request", !.requests = 1]
                 ELSE [NoHttpCall EXCEPT !.pc = "thrown"]
  /\ UNCHANGED << now, sessions, heap, turns, nturns, ncalls, nextKey, POLICY_OVERRIDES,
                  remainingSlots, reservations, chosen >>

(* `await client.request(config)' settles: the response is returned, or    *)
(* the catch block breaks out of the loop to `throw lastError', or it      *)
(* goes to sleep for the delay calculated.                                 *)
RequestSettles(settlement, random) ==
  /\ httpCall.pc = "request"
  /\ httpCall' =
       IF settlement.resolved
       THEN [httpCall EXCEPT !.pc = "returned", !.returned = <<settlement>>,
                             !.settled = Append(@, settlement)]
       ELSE IF httpCall.attempt = maxRetries \/ ~isRetryableError(settlement)
            THEN [httpCall EXCEPT !.pc = "thrown", !.lastError = <<settlement>>,
                                  !.settled = Append(@, settlement)]
            ELSE [httpCall EXCEPT !.pc = "sleep", !.lastError = <<settlement>>,
                                  !.settled = Append(@, settlement),
                                  !.delay = calculateDelay(httpCall.attempt, random)]
  /\ UNCHANGED << now, sessions, heap, turns, nturns, ncalls, nextKey, POLICY_OVERRIDES,
                  remainingSlots, reservations, chosen >>

(* `await sleep(delay)' is over: attempt++, and the loop makes the next    *)
(* request if attempt <= maxRetries, else it is left to `throw lastError'. *)
SleepEnds ==
  /\ httpCall.pc = "sleep"
  /\ httpCall' =
       IF httpCall.attempt + 1 <= maxRetries
       THEN [httpCall EXCEPT !.pc = "request", !.attempt = @ + 1, !.requests = @ + 1]
       ELSE [httpCall EXCEPT !.pc = "thrown", !.attempt = @ + 1]
  /\ UNCHANGED << now, sessions, heap, turns, nturns, ncalls, nextKey, POLICY_OVERRIDES,
                  remainingSlots, reservations, chosen >>

(* One call of httpWithRetry. The clients are created with a timeout, so   *)
(* every request settles, and the timer of sleep fires: the event loop     *)
(* then runs the rest of the function, which is what the fairness          *)
(* conditions say.                                                         *)
NextRetry ==
  \/ httpWithRetry
  \/ \E settlement \in Settlements, random \in 0..(RandomSteps - 1) :
       RequestSettles(settlement, random)
  \/ SleepEnds

SpecRetry ==
  /\ Init /\ [][NextRetry]_vars
  /\ WF_vars(\E settlement \in Settlements, random \in 0..(RandomSteps - 1) :
               RequestSettles(settlement, random))
  /\ WF_vars(SleepEnds)

(* C40: httpWithRetry always terminates, makes at most maxRetries + 1      *)
(* requests, returns the first response a request resolves with and makes  *)
(* no request after it, and makes exactly one request when the first       *)
(* request is rejected with a status below 500 other than 429.             *)
C40_RetryBoundedAndTerminates ==
  /\ [](httpCall.requests <= maxRetries + 1)
  /\ [](\A i \in 1..Len(httpCall.settled) :
          httpCall.settled[i].resolved
            => /\ i = Len(httpCall.settled)
               /\ httpCall.requests = i
               /\ httpCall.pc = "returned"
               /\ httpCall.returned = <<httpCall.settled[i]>>)
  /\ [](/\ Len(httpCall.settled) >= 1
        /\ ~httpCall.settled[1].resolved
        /\ httpCall.settled[1].response
        /\ httpCall.settled[1].status < 500
        /\ httpCall.settled[1].status # 429
        => /\ httpCall.requests = 1
           /\ httpCall.pc = "thrown"
           /\ httpCall.lastError = <<httpCall.settled[1]>>)
  /\ [][httpCall.pc \in {"returned", "thrown"} => UNCHANGED httpCall]_vars
  /\ (httpCall.pc \in {"request", "sleep"} ~> httpCall.pc \in {"returned", "thrown"})

(* A call that returns the response of its last permitted request, after   *)
(* maxRetries rejected ones.                                               *)
C40_Witness ==
  /\ httpCall.pc = "returned"
  /\ httpCall.requests = maxRetries + 1
  /\ Len(httpCall.settled) = maxRetries + 1
  /\ httpCall.returned = <<Resolved200>>

====
